---------------------------- MODULE Spec2Model ----------------------------
(***************************************************************************)
(* Model of the COLMAP reconstruction readers of crates/colmap-reader.      *)
(*                                                                         *)
(* Files are byte sequences.  A text file is split into lines and tokens   *)
(* exactly as read_line / split_whitespace do; numerals are parsed digit   *)
(* by digit.  A binary file is read field by field in little-endian byte   *)
(* order.  A reader call is one action computing the whole result:         *)
(* Ok(mapping), Err(message) or a panic of the thread.                     *)
(*                                                                         *)
(* Floating point.  A double is represented by the integer number of       *)
(* F64Grid-ths it holds (500.25 is 2001 when F64Grid = 4); a single is a   *)
(* double that is a multiple of F32Step grid units, so `as f32` and        *)
(* parse::<f32> round (to nearest, ties to even) and are not the identity. *)
(* The 8 bytes of a double are abstracted to the little-endian two's       *)
(* complement code of its grid value.                                      *)
(***************************************************************************)
EXTENDS Integers, Sequences, FiniteSets, TLC

(***************************************************************************)
(* Bytes and ASCII                                                         *)
(***************************************************************************)
NUL == 0
LF == 10
SPACE == 32
HASH == 35
PLUS == 43
MINUS == 45
DOT == 46
DIGIT0 == 48

\* char::is_whitespace on the ASCII range, as used by str::split_whitespace
is_whitespace(b) == b \in {9, 10, 11, 12, 13, 32}

is_digit(b) == b >= 48 /\ b <= 57

(***************************************************************************)
(* CameraModel                                                             *)
(***************************************************************************)
None == "None"

\* the variants of the enum
CameraModel ==
    {"SimplePinhole", "Pinhole", "SimpleRadial", "Radial", "OpenCV", "OpenCvFishEye",
     "FullOpenCV", "Fov", "SimpleRadialFisheye", "RadialFisheye", "ThinPrismFisheye"}

from_id(id) ==
    CASE id = 0 -> "SimplePinhole"
      [] id = 1 -> "Pinhole"
      [] id = 2 -> "SimpleRadial"
      [] id = 3 -> "Radial"
      [] id = 4 -> "OpenCV"
      [] id = 5 -> "OpenCvFishEye"
      [] id = 6 -> "FullOpenCV"
      [] id = 7 -> "Fov"
      [] id = 8 -> "SimpleRadialFisheye"
      [] id = 9 -> "RadialFisheye"
      [] id = 10 -> "ThinPrismFisheye"
      [] OTHER -> None

\* the names matched by from_name, as ASCII bytes
ModelNames ==
    <<
    \* "SIMPLE_PINHOLE"
    <<83, 73, 77, 80, 76, 69, 95, 80, 73, 78, 72, 79, 76, 69>>,
    \* "PINHOLE"
    <<80, 73, 78, 72, 79, 76, 69>>,
    \* "SIMPLE_RADIAL"
    <<83, 73, 77, 80, 76, 69, 95, 82, 65, 68, 73, 65, 76>>,
    \* "RADIAL"
    <<82, 65, 68, 73, 65, 76>>,
    \* "OPENCV"
    <<79, 80, 69, 78, 67, 86>>,
    \* "OPENCV_FISHEYE"
    <<79, 80, 69, 78, 67, 86, 95, 70, 73, 83, 72, 69, 89, 69>>,
    \* "FULL_OPENCV"
    <<70, 85, 76, 76, 95, 79, 80, 69, 78, 67, 86>>,
    \* "FOV"
    <<70, 79, 86>>,
    \* "SIMPLE_RADIAL_FISHEYE"
    <<83, 73, 77, 80, 76, 69, 95, 82, 65, 68, 73, 65, 76, 95, 70, 73, 83, 72, 69, 89, 69>>,
    \* "RADIAL_FISHEYE"
    <<82, 65, 68, 73, 65, 76, 95, 70, 73, 83, 72, 69, 89, 69>>,
    \* "THIN_PRISM_FISHEYE"
    <<84, 72, 73, 78, 95, 80, 82, 73, 83, 77, 95, 70, 73, 83, 72, 69, 89, 69>>
    >>

\* a from_name that also takes "pinhole" in lower case
from_name_any_case(name) ==
    CASE name = ModelNames[1] -> "SimplePinhole"
      [] name \in {ModelNames[2], <<112, 105, 110, 104, 111, 108, 101>>} -> "Pinhole"
      [] name = ModelNames[3] -> "SimpleRadial"
      [] name = ModelNames[4] -> "Radial"
      [] name = ModelNames[5] -> "OpenCV"
      [] name = ModelNames[6] -> "OpenCvFishEye"
      [] name = ModelNames[7] -> "FullOpenCV"
      [] name = ModelNames[8] -> "Fov"
      [] name = ModelNames[9] -> "SimpleRadialFisheye"
      [] name = ModelNames[10] -> "RadialFisheye"
      [] name = ModelNames[11] -> "ThinPrismFisheye"
      [] OTHER -> None

from_name(name) ==
    CASE name = ModelNames[1] -> "SimplePinhole"
      [] name = ModelNames[2] -> "Pinhole"
      [] name = ModelNames[3] -> "SimpleRadial"
      [] name = ModelNames[4] -> "Radial"
      [] name = ModelNames[5] -> "OpenCV"
      [] name = ModelNames[6] -> "OpenCvFishEye"
      [] name = ModelNames[7] -> "FullOpenCV"
      [] name = ModelNames[8] -> "Fov"
      [] name = ModelNames[9] -> "SimpleRadialFisheye"
      [] name = ModelNames[10] -> "RadialFisheye"
      [] name = ModelNames[11] -> "ThinPrismFisheye"
      [] OTHER -> None

\* a num_params that takes OPENCV_FISHEYE for a model of 4 parameters
num_params_fisheye4(model) ==
    CASE model = "SimplePinhole" -> 3
      [] model \in {"Pinhole", "SimpleRadial", "SimpleRadialFisheye", "OpenCvFishEye"} -> 4
      [] model \in {"Radial", "Fov", "RadialFisheye"} -> 5
      [] model = "OpenCV" -> 8
      [] model \in {"FullOpenCV", "ThinPrismFisheye"} -> 12

num_params(model) ==
    CASE model = "SimplePinhole" -> 3
      [] model = "Pinhole" -> 4
      [] model = "SimpleRadial" -> 4
      [] model = "Radial" -> 5
      [] model = "OpenCV" -> 8
      [] model = "OpenCvFishEye" -> 8
      [] model = "FullOpenCV" -> 12
      [] model = "Fov" -> 5
      [] model = "SimpleRadialFisheye" -> 4
      [] model = "RadialFisheye" -> 5
      [] model = "ThinPrismFisheye" -> 12

(***************************************************************************)
(* Floating point on a grid                                                *)
(***************************************************************************)
\* grid units per 1.0 of a double
F64Grid == 4

\* grid units between two neighbouring singles
F32Step == 2

\* n / d rounded to the nearest integer, ties to the even one (n >= 0, d > 0)
RoundHalfEven(n, d) ==
    LET q == n \div d
        r == n % d
    IN  IF 2 * r < d THEN q
        ELSE IF 2 * r > d THEN q + 1
        ELSE IF q % 2 = 0 THEN q ELSE q + 1

\* a cast that keeps the double
not_narrowed(x) == x

\* `x as f32` for a double x: the nearest single
as_f32(x) ==
    IF x >= 0 THEN F32Step * RoundHalfEven(x, F32Step)
    ELSE -(F32Step * RoundHalfEven(-x, F32Step))

(***************************************************************************)
(* Camera accessors                                                        *)
(***************************************************************************)
\* the index in the match of focal
focal_y_index(model) ==
    CASE model = "SimplePinhole" -> 0
      [] model = "Pinhole" -> 1
      [] model = "SimpleRadial" -> 0
      [] model = "Radial" -> 0
      [] model = "OpenCV" -> 1
      [] model = "OpenCvFishEye" -> 1
      [] model = "FullOpenCV" -> 1
      [] model = "Fov" -> 1
      [] model = "SimpleRadialFisheye" -> 0
      [] model = "RadialFisheye" -> 0
      [] model = "ThinPrismFisheye" -> 1

\* the index in the first match of principal_point
principal_point_x_index(model) ==
    CASE model = "SimplePinhole" -> 1
      [] model = "Pinhole" -> 2
      [] model = "SimpleRadial" -> 1
      [] model = "Radial" -> 1
      [] model = "OpenCV" -> 2
      [] model = "OpenCvFishEye" -> 2
      [] model = "FullOpenCV" -> 2
      [] model = "Fov" -> 2
      [] model = "SimpleRadialFisheye" -> 1
      [] model = "RadialFisheye" -> 1
      [] model = "ThinPrismFisheye" -> 2

\* a second index that takes every model to have two focal lengths
principal_point_y_index_wide(model) == 3

\* the index in the second match of principal_point
principal_point_y_index(model) ==
    CASE model = "SimplePinhole" -> 2
      [] model = "Pinhole" -> 3
      [] model = "SimpleRadial" -> 2
      [] model = "Radial" -> 2
      [] model = "OpenCV" -> 3
      [] model = "OpenCvFishEye" -> 3
      [] model = "FullOpenCV" -> 3
      [] model = "Fov" -> 3
      [] model = "SimpleRadialFisheye" -> 2
      [] model = "RadialFisheye" -> 2
      [] model = "ThinPrismFisheye" -> 3

\* what an accessor yields when an index is past the end of params: the
\* thread panics and no pair is returned
Panicked == <<>>

\* params is 0-based in the source and 1-based here
focal(self) ==
    IF 0 >= Len(self.params) \/ focal_y_index(self.model) >= Len(self.params) THEN Panicked
    ELSE <<self.params[0 + 1], self.params[focal_y_index(self.model) + 1]>>

\* a principal_point that reads the two params after the first focal length,
\* whatever the model
principal_point_after_fx(self) == <<as_f32(self.params[1 + 1]), as_f32(self.params[2 + 1])>>

principal_point(self) ==
    IF \/ principal_point_x_index(self.model) >= Len(self.params)
       \/ principal_point_y_index(self.model) >= Len(self.params)
    THEN Panicked
    ELSE <<as_f32(self.params[principal_point_x_index(self.model) + 1]),
           as_f32(self.params[principal_point_y_index(self.model) + 1])>>

(***************************************************************************)
(* Results of fallible operations                                          *)
(***************************************************************************)
\* io::Result of a scalar: Ok(v) or Err
OkV(v) == [ok |-> TRUE, v |-> v]

ErrV == [ok |-> FALSE, v |-> 0]

(***************************************************************************)
(* str::parse for the numeric types the readers use                        *)
(***************************************************************************)
I32MaxDiv10 == 214748364

U8Max == 255

\* the digits of s from position i on, accumulated onto acc the way
\* from_str_radix does for a non-negative number: checked_mul(10) then
\* checked_add(digit); lim is MAX / 10 and last is MAX % 10 of the type.
\* -1 stands for the error (an invalid digit or an overflow).
RECURSIVE AccPos(_, _, _, _, _)
AccPos(s, i, acc, lim, last) ==
    IF i > Len(s) THEN acc
    ELSE IF ~is_digit(s[i]) THEN -1
    ELSE IF acc > lim \/ (acc = lim /\ s[i] - DIGIT0 > last) THEN -1
    ELSE AccPos(s, i + 1, acc * 10 + (s[i] - DIGIT0), lim, last)

\* the same for a negative number: checked_mul(10) then checked_sub(digit);
\* acc is <= 0 and 1 stands for the error.
RECURSIVE AccNeg(_, _, _, _, _)
AccNeg(s, i, acc, lim, last) ==
    IF i > Len(s) THEN acc
    ELSE IF ~is_digit(s[i]) THEN 1
    ELSE IF -acc > lim \/ (-acc = lim /\ s[i] - DIGIT0 > last) THEN 1
    ELSE AccNeg(s, i + 1, acc * 10 - (s[i] - DIGIT0), lim, last)

\* parse::<u8>: an optional '+', then digits, at most 255
parse_u8(s) ==
    LET start == IF Len(s) > 0 /\ s[1] = PLUS THEN 2 ELSE 1
        v == AccPos(s, start, 0, U8Max \div 10, U8Max % 10)
    IN  IF start > Len(s) \/ v < 0 THEN ErrV ELSE OkV(v)

\* parse::<i32>: an optional sign, then digits, within -2^31 .. 2^31 - 1
parse_i32(s) ==
    IF Len(s) = 0 \/ (Len(s) = 1 /\ s[1] \in {PLUS, MINUS}) THEN ErrV
    ELSE IF s[1] = MINUS
    THEN LET v == AccNeg(s, 2, 0, I32MaxDiv10, 8) IN IF v > 0 THEN ErrV ELSE OkV(v)
    ELSE LET v == AccPos(s, IF s[1] = PLUS THEN 2 ELSE 1, 0, I32MaxDiv10, 7)
         IN  IF v < 0 THEN ErrV ELSE OkV(v)

\* parse::<i64>.  The 64-bit range is wider than the integers of the model
\* checker: numerals are accumulated within the 32-bit range, which every
\* numeral of at most 9 digits fits.
parse_i64(s) == parse_i32(s)

\* parse::<u64>: an optional '+', then digits; a '-' is an invalid digit.
\* Same remark on the range as parse_i64.
parse_u64(s) ==
    LET start == IF Len(s) > 0 /\ s[1] = PLUS THEN 2 ELSE 1
        v == AccPos(s, start, 0, I32MaxDiv10, 7)
    IN  IF start > Len(s) \/ v < 0 THEN ErrV ELSE OkV(v)

\* first position >= i of s that holds no digit
RECURSIVE DigitsEnd(_, _)
DigitsEnd(s, i) == IF i <= Len(s) /\ is_digit(s[i]) THEN DigitsEnd(s, i + 1) ELSE i

RECURSIVE Pow10(_)
Pow10(k) == IF k = 0 THEN 1 ELSE 10 * Pow10(k - 1)

\* A decimal numeral [sign] digits [ '.' digits ] with at least one digit, as
\* [ok, neg, m, scale]: its value is m / scale.  (Exponents and the words
\* inf / nan, which parse::<f64> also accepts, are not part of the model.)
\* The integer digits are s[start .. e1 - 1], the fraction digits s[f1 .. e2 - 1].
DecimalParts(s, start, e1, f1, e2) ==
    IF e2 <= Len(s) \/ (e1 - start) + (e2 - f1) = 0
    THEN [ok |-> FALSE, neg |-> FALSE, m |-> 0, scale |-> 1]
    ELSE [ok |-> TRUE, neg |-> s[1] = MINUS,
          m |-> AccPos(SubSeq(s, start, e1 - 1) \o SubSeq(s, f1, e2 - 1), 1, 0, I32MaxDiv10, 7),
          scale |-> Pow10(e2 - f1)]

DecimalInt(s, start, e1) ==
    IF e1 <= Len(s) /\ s[e1] = DOT
    THEN DecimalParts(s, start, e1, e1 + 1, DigitsEnd(s, e1 + 1))
    ELSE DecimalParts(s, start, e1, e1, e1)

DecimalAt(s, start) == DecimalInt(s, start, DigitsEnd(s, start))

Decimal(s) == DecimalAt(s, IF Len(s) > 0 /\ s[1] \in {PLUS, MINUS} THEN 2 ELSE 1)

\* the double nearest to the decimal d
F64Of(d) ==
    IF ~d.ok THEN ErrV
    ELSE IF d.neg THEN OkV(-RoundHalfEven(d.m * F64Grid, d.scale))
    ELSE OkV(RoundHalfEven(d.m * F64Grid, d.scale))

\* the single nearest to the decimal d
F32Of(d) ==
    IF ~d.ok THEN ErrV
    ELSE IF d.neg THEN OkV(-(F32Step * RoundHalfEven(d.m * F64Grid, d.scale * F32Step)))
    ELSE OkV(F32Step * RoundHalfEven(d.m * F64Grid, d.scale * F32Step))

\* a parse of the params that keeps single precision only
parse_single(s) == F32Of(Decimal(s))

\* parse::<f64>
parse_f64(s) == F64Of(Decimal(s))

\* parse::<f32>
parse_f32(s) == F32Of(Decimal(s))

\* parse::<T>(s) for the type T that inference gives the call
parse(type, s) ==
    CASE type = "i32" -> parse_i32(s)
      [] type = "i64" -> parse_i64(s)
      [] type = "u64" -> parse_u64(s)
      [] type = "u8" -> parse_u8(s)
      [] type = "f32" -> parse_f32(s)
      [] type = "f64" -> parse_f64(s)

(***************************************************************************)
(* Lines and tokens of a text file                                         *)
(***************************************************************************)
\* first position >= i of s holding byte b, or Len(s) + 1
RECURSIVE Find(_, _, _)
Find(s, i, b) == IF i > Len(s) \/ s[i] = b THEN i ELSE Find(s, i + 1, b)

\* the bytes of s from pos up to and including position e, or up to the end of
\* s when e is past it
Through(s, pos, e) == SubSeq(s, pos, IF e > Len(s) THEN Len(s) ELSE e)

\* BufRead::read_line at position pos: the bytes up to and including the next
\* line feed, or up to the end of the file; empty (0 bytes read) at the end
read_line(file, pos) == Through(file, pos, Find(file, pos, LF))

\* first position >= i of s that is (ws = TRUE) or is not (ws = FALSE) whitespace
RECURSIVE Skip(_, _, _)
Skip(s, i, ws) ==
    IF i > Len(s) \/ is_whitespace(s[i]) = ws THEN i ELSE Skip(s, i + 1, ws)

\* str::split_whitespace(..).collect(): the maximal runs of non-whitespace.
\* split_from(s, b, acc): b is the start of the next token, if any is left.
RECURSIVE split_from(_, _, _)
split_from(s, b, acc) ==
    IF b > Len(s) THEN acc
    ELSE split_from(s, Skip(s, Skip(s, b, TRUE), FALSE),
                    Append(acc, SubSeq(s, b, Skip(s, b, TRUE) - 1)))

split_whitespace(s) == split_from(s, Skip(s, 1, FALSE), <<>>)

\* a test that takes only a line of a single '#' for a comment
hash_alone(line) == line = <<HASH, LF>>

\* str::starts_with('#')
starts_with_hash(line) == Len(line) > 0 /\ line[1] = HASH

(***************************************************************************)
(* UTF-8                                                                   *)
(***************************************************************************)
\* a continuation byte within lo..hi at position i
Cont(s, i, lo, hi) == i <= Len(s) /\ s[i] >= lo /\ s[i] <= hi

\* length of the well-formed UTF-8 sequence starting at position i, 0 if none
Utf8SeqLen(s, i) ==
    LET b == s[i]
    IN  IF b < 128 THEN 1
        ELSE IF b >= 194 /\ b <= 223
        THEN IF Cont(s, i + 1, 128, 191) THEN 2 ELSE 0
        ELSE IF b >= 224 /\ b <= 239
        THEN IF /\ Cont(s, i + 1, IF b = 224 THEN 160 ELSE 128, IF b = 237 THEN 159 ELSE 191)
                /\ Cont(s, i + 2, 128, 191)
             THEN 3 ELSE 0
        ELSE IF b >= 240 /\ b <= 244
        THEN IF /\ Cont(s, i + 1, IF b = 240 THEN 144 ELSE 128, IF b = 244 THEN 143 ELSE 191)
                /\ Cont(s, i + 2, 128, 191)
                /\ Cont(s, i + 3, 128, 191)
             THEN 4 ELSE 0
        ELSE 0

RECURSIVE utf8_from(_, _)
utf8_from(s, i) ==
    IF i > Len(s) THEN TRUE
    ELSE LET n == Utf8SeqLen(s, i) IN IF n = 0 THEN FALSE ELSE utf8_from(s, i + n)

\* a decoding that refuses no byte sequence
from_utf8_lossy_ok(s) == TRUE

\* std::str::from_utf8(s).is_ok()
is_utf8(s) == utf8_from(s, 1)

(***************************************************************************)
(* io::Result<HashMap<..>> and a panic                                     *)
(***************************************************************************)
EmptyMap == <<>>

\* an insert that keeps the entry a key already has
insert_if_absent(map, k, v) ==
    [x \in DOMAIN map \cup {k} |-> IF x \in DOMAIN map THEN map[x] ELSE v]

\* an insert into a container that holds the last entry only
insert_forgetful(map, k, v) == [x \in {k} |-> v]

\* HashMap::insert: a later entry replaces an earlier one with the same key
insert(map, k, v) == [x \in DOMAIN map \cup {k} |-> IF x = k THEN v ELSE map[x]]

Ok(map) == [tag |-> "Ok", kind |-> "", msg |-> "", map |-> map]

\* io::Error::new(ErrorKind::InvalidData, msg)
InvalidData(msg) == [tag |-> "Err", kind |-> "InvalidData", msg |-> msg, map |-> EmptyMap]

\* the error of read_exact at the end of the stream
UnexpectedEof ==
    [tag |-> "Err", kind |-> "UnexpectedEof", msg |-> "failed to fill whole buffer",
     map |-> EmptyMap]

\* the thread panics: the call returns nothing
Panic(msg) == [tag |-> "Panic", kind |-> "", msg |-> msg, map |-> EmptyMap]

\* parse(): the error of line 156
ParseError == InvalidData("Parse error")

\* read_line fails on a line that is not UTF-8
NotUtf8 == InvalidData("stream did not contain valid UTF-8")

(***************************************************************************)
(* read_cameras_text                                                       *)
(***************************************************************************)
\* parts[from..].iter().map(parse).collect::<Result<Vec<f64>, _>>(): the values
\* in order, or the error of the first token that does not parse
RECURSIVE collect_f64(_, _, _)
collect_next(parts, from, acc, p) ==
    IF ~p.ok THEN ErrV ELSE collect_f64(parts, from + 1, Append(acc, p.v))

collect_f64(parts, from, acc) ==
    IF from > Len(parts) THEN OkV(acc)
    ELSE collect_next(parts, from, acc, parse_f64(parts[from]))

\* one Camera of the mapping
Camera(id, model, width, height, params) ==
    [id |-> id, model |-> model, width |-> width, height |-> height, params |-> params]

\* camera_fields without the check of the number of params
camera_fields_unchecked(id, model, width, height, params) ==
    IF ~id.ok THEN ParseError
    ELSE IF model = None THEN InvalidData("Invalid camera model")
    ELSE IF ~width.ok THEN ParseError
    ELSE IF ~height.ok THEN ParseError
    ELSE IF ~params.ok THEN ParseError
    ELSE Ok(Camera(id.v, model, width.v, height.v, params.v))

\* camera_fields that only rejects too few params
camera_fields_at_least(id, model, width, height, params) ==
    IF ~id.ok THEN ParseError
    ELSE IF model = None THEN InvalidData("Invalid camera model")
    ELSE IF ~width.ok THEN ParseError
    ELSE IF ~height.ok THEN ParseError
    ELSE IF ~params.ok THEN ParseError
    ELSE IF Len(params.v) < num_params(model)
    THEN InvalidData("Invalid number of camera parameters")
    ELSE Ok(Camera(id.v, model, width.v, height.v, params.v))

\* lines 178-205: the Camera to insert, or the error returned
camera_fields(id, model, width, height, params) ==
    IF ~id.ok THEN ParseError
    ELSE IF model = None THEN InvalidData("Invalid camera model")
    ELSE IF ~width.ok THEN ParseError
    ELSE IF ~height.ok THEN ParseError
    ELSE IF ~params.ok THEN ParseError
    ELSE IF Len(params.v) # num_params(model)
    THEN InvalidData("Invalid number of camera parameters")
    ELSE Ok(Camera(id.v, model, width.v, height.v, params.v))

\* lines 171-205, for the tokens of a line
camera_parts(parts) ==
    IF Len(parts) < 4 THEN InvalidData("Invalid camera data")
    ELSE camera_fields(parse_i32(parts[1]), from_name(parts[2]), parse_u64(parts[3]),
                       parse_u64(parts[4]), collect_f64(parts, 5, <<>>))

\* the body of the while loop for one line that is no comment
camera_line(line) == camera_parts(split_whitespace(line))

RECURSIVE cameras_text_loop(_, _, _)
cameras_text_insert(file, next, cameras, rec) ==
    IF rec.tag # "Ok" THEN rec
    ELSE cameras_text_loop(file, next, insert(cameras, rec.map.id, rec.map))

\* cameras_text_line that also skips a line without tokens
cameras_text_line_skip_blank(file, pos, cameras, line) ==
    IF ~is_utf8(line) THEN NotUtf8
    ELSE IF Len(line) = 0 THEN Ok(cameras)
    ELSE IF starts_with_hash(line) \/ Len(split_whitespace(line)) = 0
    THEN cameras_text_loop(file, pos + Len(line), cameras)
    ELSE cameras_text_insert(file, pos + Len(line), cameras, camera_line(line))

cameras_text_line(file, pos, cameras, line) ==
    IF ~is_utf8(line) THEN NotUtf8
    ELSE IF Len(line) = 0 THEN Ok(cameras)
    ELSE IF starts_with_hash(line) THEN cameras_text_loop(file, pos + Len(line), cameras)
    ELSE cameras_text_insert(file, pos + Len(line), cameras, camera_line(line))

cameras_text_loop(file, pos, cameras) ==
    cameras_text_line(file, pos, cameras, read_line(file, pos))

read_cameras_text(reader) == cameras_text_loop(reader, 1, EmptyMap)

(***************************************************************************)
(* Little-endian fields of a binary file                                   *)
(***************************************************************************)
\* the unsigned value of the n bytes at pos, least significant first
RECURSIVE LEU(_, _, _)
LEU(file, pos, n) == IF n = 0 THEN 0 ELSE file[pos] + 256 * LEU(file, pos + 1, n - 1)

\* the same of the bitwise complement of these bytes
RECURSIVE LEC(_, _, _)
LEC(file, pos, n) == IF n = 0 THEN 0 ELSE (255 - file[pos]) + 256 * LEC(file, pos + 1, n - 1)

\* the two's complement value of the n bytes at pos
LES(file, pos, n) ==
    IF file[pos + n - 1] >= 128 THEN -LEC(file, pos, n) - 1 ELSE LEU(file, pos, n)

\* width in bytes of a field type
Width(type) ==
    CASE type = "u8" -> 1
      [] type = "i32" -> 4
      [] type \in {"u64", "i64", "f64"} -> 8

\* ReadBytesExt::read_<type>::<LittleEndian> at pos: the value and the position
\* after it, or the UnexpectedEof of read_exact
read(file, pos, type) ==
    IF pos + Width(type) - 1 > Len(file) THEN [ok |-> FALSE, v |-> 0, pos |-> pos]
    ELSE [ok |-> TRUE,
          v |-> IF type \in {"u8", "u64"} THEN LEU(file, pos, Width(type))
                ELSE LES(file, pos, Width(type)),
          pos |-> pos + Width(type)]

\* consecutive reads, each followed by `?`: the values in order and the
\* position after them, or the failure of the first read that fails
RECURSIVE read_each(_, _, _, _)
read_next(file, types, acc, r) ==
    IF ~r.ok THEN [ok |-> FALSE, v |-> <<>>, pos |-> r.pos]
    ELSE read_each(file, r.pos, Tail(types), Append(acc, r.v))

read_each(file, pos, types, acc) ==
    IF Len(types) = 0 THEN [ok |-> TRUE, v |-> acc, pos |-> pos]
    ELSE read_next(file, types, acc, read(file, pos, Head(types)))

read_fields(file, pos, types) == read_each(file, pos, types, <<>>)

\* n times the same type
Repeat(type, n) == [i \in 1..n |-> type]

\* Vec::<T>::with_capacity(n as usize) for the u64 n at pos and size_of::<T>()
\* = size (4 or 8): it panics ("capacity overflow") when n * size is more than
\* isize::MAX = 2^63 - 1, that is when the top byte of n times size is 128 or
\* more.  (A smaller n is taken to be allocated.)
capacity_overflow(file, pos, size) == file[pos + 7] * size >= 128

(***************************************************************************)
(* read_cameras_binary                                                     *)
(***************************************************************************)
RECURSIVE cameras_binary_loop(_, _, _, _)
\* lines 225-240: the params, then the insert
cameras_binary_insert(file, left, cameras, v, model, params) ==
    IF ~params.ok THEN UnexpectedEof
    ELSE cameras_binary_loop(file, params.pos, left - 1,
             insert(cameras, v[1], Camera(v[1], model, v[3], v[4], params.v)))

\* lines 222-229, for v = <<camera_id, model_id, width, height>>
cameras_binary_model(file, pos, left, cameras, v, model) ==
    IF model = None THEN InvalidData("Invalid camera model")
    ELSE cameras_binary_insert(file, left, cameras, v, model,
             read_fields(file, pos, Repeat("f64", num_params(model))))

cameras_binary_record(file, left, cameras, head) ==
    IF ~head.ok THEN UnexpectedEof
    ELSE cameras_binary_model(file, head.pos, left, cameras, head.v, from_id(head.v[2]))

cameras_binary_loop(file, pos, left, cameras) ==
    IF left = 0 THEN Ok(cameras)
    ELSE cameras_binary_record(file, left, cameras,
             read_fields(file, pos, <<"i32", "i32", "u64", "u64">>))

cameras_binary_count(reader, num_cameras) ==
    IF ~num_cameras.ok THEN UnexpectedEof
    ELSE cameras_binary_loop(reader, num_cameras.pos, num_cameras.v, EmptyMap)

read_cameras_binary(reader) == cameras_binary_count(reader, read(reader, 1, "u64"))

read_cameras(reader, binary) ==
    IF binary THEN read_cameras_binary(reader) ELSE read_cameras_text(reader)

(***************************************************************************)
(* read_images_text                                                        *)
(***************************************************************************)
\* parse(elems[from])?, parse(elems[from + 1])?, ... with the types given, in
\* source order: indexing past the end of elems panics, a token that does not
\* parse returns the error.  [tag, v]: the values, or which of the two
\* happened first.
RECURSIVE parse_each(_, _, _, _)
parse_next(elems, from, types, acc, p) ==
    IF ~p.ok THEN [tag |-> "Err", v |-> <<>>]
    ELSE parse_each(elems, from + 1, Tail(types), Append(acc, p.v))

parse_each(elems, from, types, acc) ==
    IF Len(types) = 0 THEN [tag |-> "Ok", v |-> acc]
    ELSE IF from > Len(elems) THEN [tag |-> "Panic", v |-> <<>>]
    ELSE parse_next(elems, from, types, acc, parse(Head(types), elems[from]))

parse_indexed(elems, from, types) == parse_each(elems, from, types, <<>>)

\* one Image of the mapping
Image(quat, tvec, camera_id, name, xys, point3d_ids) ==
    [quat |-> quat, tvec |-> tvec, camera_id |-> camera_id, name |-> name,
     xys |-> xys, point3d_ids |-> point3d_ids]

\* a constructor that takes its arguments in the order of the file: w first
quat_w_first(a, b, c, d) == [w |-> a, x |-> b, y |-> c, z |-> d]

\* glam::quat(x, y, z, w)
quat(x, y, z, w) == [x |-> x, y |-> y, z |-> z, w |-> w]

\* the loop over elems.chunks(3) of line B, from token `from` on:
\* [tag, xys, point3d_ids]
RECURSIVE chunks3(_, _, _, _)
chunks3_push(elems, from, xys, point3d_ids, c) ==
    IF c.tag # "Ok" THEN [tag |-> c.tag, xys |-> <<>>, point3d_ids |-> <<>>]
    ELSE chunks3(elems, from + 3, Append(xys, <<c.v[1], c.v[2]>>), Append(point3d_ids, c.v[3]))

chunks3(elems, from, xys, point3d_ids) ==
    IF from > Len(elems) THEN [tag |-> "Ok", xys |-> xys, point3d_ids |-> point3d_ids]
    ELSE chunks3_push(elems, from, xys, point3d_ids,
                      parse_indexed(elems, from, <<"f32", "f32", "i64">>))

\* lines 285-295, for v = <<id, w, x, y, z, tx, ty, tz, camera_id>>
image_insert(v, name, obs) ==
    IF obs.tag = "Panic" THEN Panic("index out of bounds")
    ELSE IF obs.tag = "Err" THEN ParseError
    ELSE Ok([id |-> v[1],
             image |-> Image(quat(v[3], v[4], v[5], v[2]), <<v[6], v[7], v[8]>>, v[9], name,
                             obs.xys, obs.point3d_ids)])

\* lines 261-283, for the tokens of line A and the bytes of line B
image_fields(elems, head, lineB) ==
    IF head.tag = "Panic" THEN Panic("index out of bounds")
    ELSE IF head.tag = "Err" THEN ParseError
    ELSE IF Len(elems) < 10 THEN Panic("index out of bounds")
    ELSE IF ~is_utf8(lineB) THEN NotUtf8
    ELSE image_insert(head.v, elems[10], chunks3(split_whitespace(lineB), 1, <<>>, <<>>))

image_elems(elems, lineB) ==
    image_fields(elems,
                 parse_indexed(elems, 1,
                     <<"i32", "f32", "f32", "f32", "f32", "f32", "f32", "f32", "i32">>),
                 lineB)

\* the body of the `if` for line A and the line B that follows it: the key and
\* the Image to insert (as Ok([id, image])), the error returned, or a panic
image_lines(lineA, lineB) == image_elems(split_whitespace(lineA), lineB)

RECURSIVE images_text_loop(_, _, _)
images_text_insert(file, next, images, rec) ==
    IF rec.tag # "Ok" THEN rec
    ELSE images_text_loop(file, next, insert(images, rec.map.id, rec.map.image))

\* images_text_record that takes the end of the input for a truncated record
images_text_record_needs_b(file, next, images, lineA, lineB) ==
    IF Len(lineB) = 0 THEN UnexpectedEof
    ELSE images_text_insert(file, next + Len(lineB), images, image_lines(lineA, lineB))

images_text_record(file, next, images, lineA, lineB) ==
    images_text_insert(file, next + Len(lineB), images, image_lines(lineA, lineB))

images_text_line(file, pos, images, line) ==
    IF ~is_utf8(line) THEN NotUtf8
    ELSE IF Len(line) = 0 THEN Ok(images)
    ELSE IF Len(line) # 0 /\ ~starts_with_hash(line)
    THEN images_text_record(file, pos + Len(line), images, line,
                            read_line(file, pos + Len(line)))
    ELSE images_text_loop(file, pos + Len(line), images)

images_text_loop(file, pos, images) == images_text_line(file, pos, images, read_line(file, pos))

read_images_text(reader) == images_text_loop(reader, 1, EmptyMap)

(***************************************************************************)
(* read_images_binary                                                      *)
(***************************************************************************)
\* a read that ends a name at the first space as well, as a token of a text line
read_until_space_or_nul(file, pos) ==
    Through(file, pos,
            IF Find(file, pos, SPACE) < Find(file, pos, NUL) THEN Find(file, pos, SPACE)
            ELSE Find(file, pos, NUL))

\* BufRead::read_until(b'\0', ..): the bytes up to and including the first NUL
\* at or after pos, or all that is left when there is none
read_until_nul(file, pos) == Through(file, pos, Find(file, pos, NUL))

\* the loop over the num_points2d triples of (x, y, point3d_id):
\* [ok, xys, point3d_ids, pos]
RECURSIVE points2d(_, _, _, _, _)
\* points2d_push that keeps no point reference of an unmatched observation (-1)
points2d_push_matched(file, left, xys, point3d_ids, t) ==
    IF ~t.ok THEN [ok |-> FALSE, xys |-> <<>>, point3d_ids |-> <<>>, pos |-> t.pos]
    ELSE points2d(file, t.pos, left - 1, Append(xys, <<as_f32(t.v[1]), as_f32(t.v[2])>>),
                  IF t.v[3] = -1 THEN point3d_ids ELSE Append(point3d_ids, t.v[3]))

points2d_push(file, left, xys, point3d_ids, t) ==
    IF ~t.ok THEN [ok |-> FALSE, xys |-> <<>>, point3d_ids |-> <<>>, pos |-> t.pos]
    ELSE points2d(file, t.pos, left - 1, Append(xys, <<as_f32(t.v[1]), as_f32(t.v[2])>>),
                  Append(point3d_ids, t.v[3]))

points2d(file, pos, left, xys, point3d_ids) ==
    IF left = 0 THEN [ok |-> TRUE, xys |-> xys, point3d_ids |-> point3d_ids, pos |-> pos]
    ELSE points2d_push(file, left, xys, point3d_ids,
                       read_fields(file, pos, <<"f64", "f64", "i64">>))

RECURSIVE images_binary_loop(_, _, _, _)
\* lines 342-352, for v = <<image_id, w, x, y, z, tx, ty, tz, camera_id>> as read
images_binary_insert(file, left, images, v, name, obs) ==
    IF ~obs.ok THEN UnexpectedEof
    ELSE images_binary_loop(file, obs.pos, left - 1,
             insert(images, v[1],
                    Image(quat(as_f32(v[3]), as_f32(v[4]), as_f32(v[5]), as_f32(v[2])),
                          <<as_f32(v[6]), as_f32(v[7]), as_f32(v[8])>>, v[9], name,
                          obs.xys, obs.point3d_ids)))

\* lines 330-340
images_binary_points(file, left, images, v, name, num_points2d) ==
    IF ~num_points2d.ok THEN UnexpectedEof
    ELSE images_binary_insert(file, left, images, v, name,
             points2d(file, num_points2d.pos, num_points2d.v, <<>>, <<>>))

\* lines 330-332: num_points2d and the two Vec::with_capacity(num_points2d)
images_binary_capacity(file, left, images, v, name, pos) ==
    IF pos + 7 > Len(file) THEN UnexpectedEof
    ELSE IF capacity_overflow(file, pos, 8) THEN Panic("capacity overflow")
    ELSE images_binary_points(file, left, images, v, name, read(file, pos, "u64"))

\* lines 326-330: name_bytes.len() - 1 underflows on an empty name_bytes
images_binary_name(file, pos, left, images, v, name_bytes) ==
    IF Len(name_bytes) = 0 THEN Panic("attempt to subtract with overflow")
    ELSE IF ~is_utf8(SubSeq(name_bytes, 1, Len(name_bytes) - 1))
    THEN InvalidData("invalid utf-8 sequence")
    ELSE images_binary_capacity(file, left, images, v,
             SubSeq(name_bytes, 1, Len(name_bytes) - 1), pos + Len(name_bytes))

images_binary_record(file, left, images, head) ==
    IF ~head.ok THEN UnexpectedEof
    ELSE images_binary_name(file, head.pos, left, images, head.v,
                            read_until_nul(file, head.pos))

images_binary_loop(file, pos, left, images) ==
    IF left = 0 THEN Ok(images)
    ELSE images_binary_record(file, left, images,
             read_fields(file, pos,
                 <<"i32", "f64", "f64", "f64", "f64", "f64", "f64", "f64", "i32">>))

images_binary_count(reader, num_images) ==
    IF ~num_images.ok THEN UnexpectedEof
    ELSE images_binary_loop(reader, num_images.pos, num_images.v, EmptyMap)

read_images_binary(reader) == images_binary_count(reader, read(reader, 1, "u64"))

read_images(reader, binary) ==
    IF binary THEN read_images_binary(reader) ELSE read_images_text(reader)

(***************************************************************************)
(* read_points3d_text                                                      *)
(***************************************************************************)
Point3D(xyz, rgb, error, image_ids, point2d_idxs) ==
    [xyz |-> xyz, rgb |-> rgb, error |-> error, image_ids |-> image_ids,
     point2d_idxs |-> point2d_idxs]

\* the loop over parts[8..].chunks(2), from token `from` on:
\* [tag, image_ids, point2d_idxs]; tag "Short" is the chunk.len() < 2 return
RECURSIVE chunks2(_, _, _, _)
chunks2_push(parts, from, image_ids, point2d_idxs, c) ==
    IF c.tag # "Ok" THEN [tag |-> c.tag, image_ids |-> <<>>, point2d_idxs |-> <<>>]
    ELSE chunks2(parts, from + 2, Append(image_ids, c.v[1]), Append(point2d_idxs, c.v[2]))

chunks2(parts, from, image_ids, point2d_idxs) ==
    IF from > Len(parts)
    THEN [tag |-> "Ok", image_ids |-> image_ids, point2d_idxs |-> point2d_idxs]
    ELSE IF from + 1 > Len(parts)
    THEN [tag |-> "Short", image_ids |-> <<>>, point2d_idxs |-> <<>>]
    ELSE chunks2_push(parts, from, image_ids, point2d_idxs,
                      parse_indexed(parts, from, <<"i32", "i32">>))

\* point3d_insert that drops the track when its last pair is incomplete
point3d_insert_lenient(v, track) ==
    IF track.tag \notin {"Ok", "Short"} THEN ParseError
    ELSE Ok([id |-> v[1],
             point |-> Point3D(<<v[2], v[3], v[4]>>, <<v[5], v[6], v[7]>>, v[8],
                               track.image_ids, track.point2d_idxs)])

\* lines 386-409, for v = <<id, x, y, z, r, g, b, error>>
point3d_insert(v, track) ==
    IF track.tag = "Short" THEN InvalidData("Invalid point3D track data")
    ELSE IF track.tag # "Ok" THEN ParseError
    ELSE Ok([id |-> v[1],
             point |-> Point3D(<<v[2], v[3], v[4]>>, <<v[5], v[6], v[7]>>, v[8],
                               track.image_ids, track.point2d_idxs)])

point3d_fields(parts, head) ==
    IF head.tag # "Ok" THEN ParseError
    ELSE point3d_insert(head.v, chunks2(parts, 9, <<>>, <<>>))

\* lines 370-409, for the tokens of a line
point3d_parts(parts) ==
    IF Len(parts) < 8 THEN InvalidData("Invalid point3D data")
    ELSE point3d_fields(parts,
             parse_indexed(parts, 1, <<"i64", "f32", "f32", "f32", "u8", "u8", "u8", "f64">>))

\* the body of the while loop for one line that is no comment
point3d_line(line) == point3d_parts(split_whitespace(line))

RECURSIVE points3d_text_loop(_, _, _)
points3d_text_insert(file, next, points3d, rec) ==
    IF rec.tag # "Ok" THEN rec
    ELSE points3d_text_loop(file, next, insert(points3d, rec.map.id, rec.map.point))

\* points3d_text_line that also skips a line without tokens
points3d_text_line_skip_blank(file, pos, points3d, line) ==
    IF ~is_utf8(line) THEN NotUtf8
    ELSE IF Len(line) = 0 THEN Ok(points3d)
    ELSE IF starts_with_hash(line) \/ Len(split_whitespace(line)) = 0
    THEN points3d_text_loop(file, pos + Len(line), points3d)
    ELSE points3d_text_insert(file, pos + Len(line), points3d, point3d_line(line))

points3d_text_line(file, pos, points3d, line) ==
    IF ~is_utf8(line) THEN NotUtf8
    ELSE IF Len(line) = 0 THEN Ok(points3d)
    ELSE IF starts_with_hash(line) THEN points3d_text_loop(file, pos + Len(line), points3d)
    ELSE points3d_text_insert(file, pos + Len(line), points3d, point3d_line(line))

points3d_text_loop(file, pos, points3d) ==
    points3d_text_line(file, pos, points3d, read_line(file, pos))

read_points3d_text(reader) == points3d_text_loop(reader, 1, EmptyMap)

(***************************************************************************)
(* read_points3d_binary                                                    *)
(***************************************************************************)
\* the loop over the track_length pairs of (image_id, point2d_idx):
\* [ok, image_ids, point2d_idxs, pos]
RECURSIVE track_pairs(_, _, _, _, _)
\* track_push that keeps each image id once
track_push_once(file, left, image_ids, point2d_idxs, t) ==
    IF ~t.ok THEN [ok |-> FALSE, image_ids |-> <<>>, point2d_idxs |-> <<>>, pos |-> t.pos]
    ELSE track_pairs(file, t.pos, left - 1,
                     IF \E j \in 1..Len(image_ids) : image_ids[j] = t.v[1] THEN image_ids
                     ELSE Append(image_ids, t.v[1]),
                     Append(point2d_idxs, t.v[2]))

track_push(file, left, image_ids, point2d_idxs, t) ==
    IF ~t.ok THEN [ok |-> FALSE, image_ids |-> <<>>, point2d_idxs |-> <<>>, pos |-> t.pos]
    ELSE track_pairs(file, t.pos, left - 1, Append(image_ids, t.v[1]),
                     Append(point2d_idxs, t.v[2]))

track_pairs(file, pos, left, image_ids, point2d_idxs) ==
    IF left = 0
    THEN [ok |-> TRUE, image_ids |-> image_ids, point2d_idxs |-> point2d_idxs, pos |-> pos]
    ELSE track_push(file, left, image_ids, point2d_idxs,
                    read_fields(file, pos, <<"i32", "i32">>))

RECURSIVE points3d_binary_loop(_, _, _, _)
\* lines 439-448, for v = <<point3d_id, x, y, z, r, g, b, error>> as read
points3d_binary_insert(file, left, points3d, v, track) ==
    IF ~track.ok THEN UnexpectedEof
    ELSE points3d_binary_loop(file, track.pos, left - 1,
             insert(points3d, v[1],
                    Point3D(<<as_f32(v[2]), as_f32(v[3]), as_f32(v[4])>>,
                            <<v[5], v[6], v[7]>>, v[8],
                            track.image_ids, track.point2d_idxs)))

\* lines 434-437, for the track_length read
points3d_binary_track(file, left, points3d, v, track_length) ==
    points3d_binary_insert(file, left, points3d, v,
        track_pairs(file, track_length.pos, track_length.v, <<>>, <<>>))

\* lines 430-432: track_length and the two Vec::with_capacity(track_length)
points3d_binary_record(file, left, points3d, head) ==
    IF ~head.ok \/ head.pos + 7 > Len(file) THEN UnexpectedEof
    ELSE IF capacity_overflow(file, head.pos, 4) THEN Panic("capacity overflow")
    ELSE points3d_binary_track(file, left, points3d, head.v, read(file, head.pos, "u64"))

points3d_binary_loop(file, pos, left, points3d) ==
    IF left = 0 THEN Ok(points3d)
    ELSE points3d_binary_record(file, left, points3d,
             read_fields(file, pos, <<"i64", "f64", "f64", "f64", "u8", "u8", "u8", "f64">>))

points3d_binary_count(reader, num_points) ==
    IF ~num_points.ok THEN UnexpectedEof
    ELSE points3d_binary_loop(reader, num_points.pos, num_points.v, EmptyMap)

read_points3d_binary(reader) == points3d_binary_count(reader, read(reader, 1, "u64"))

read_points3d(reader, binary) ==
    IF binary THEN read_points3d_binary(reader) ELSE read_points3d_text(reader)

(***************************************************************************)
(* Writing the two encodings of a reconstruction (the inputs of the model) *)
(***************************************************************************)
\* the decimal digits of n >= 0
RECURSIVE Digits(_)
Digits(n) == IF n < 10 THEN <<DIGIT0 + n>> ELSE Digits(n \div 10) \o <<DIGIT0 + (n % 10)>>

\* an integer as a decimal numeral
IntText(v) == IF v < 0 THEN <<MINUS>> \o Digits(-v) ELSE Digits(v)

\* a double as an exact decimal numeral with one or two fraction digits: 500.0, 200.25
F64Text(x) ==
    LET a == IF x < 0 THEN -x ELSE x
        frac == ((a % F64Grid) * 100) \div F64Grid
    IN  (IF x < 0 THEN <<MINUS>> ELSE <<>>) \o Digits(a \div F64Grid) \o <<DOT>>
        \o (IF frac % 10 = 0 THEN Digits(frac \div 10)
            ELSE <<DIGIT0 + (frac \div 10), DIGIT0 + (frac % 10)>>)

\* tokens separated by one space and ended by a line feed
RECURSIVE LineText(_)
LineText(tokens) ==
    IF Len(tokens) = 0 THEN <<LF>>
    ELSE IF Len(tokens) = 1 THEN tokens[1] \o <<LF>>
    ELSE tokens[1] \o <<SPACE>> \o LineText(Tail(tokens))

RECURSIVE Concat(_)
Concat(seqs) == IF Len(seqs) = 0 THEN <<>> ELSE Head(seqs) \o Concat(Tail(seqs))

\* a text file from its lines, each a sequence of tokens
FileText(lines) == Concat([i \in 1..Len(lines) |-> LineText(lines[i])])

\* v in n little-endian bytes, two's complement when negative
RECURSIVE LEBytes(_, _)
LEBytes(v, n) == IF n = 0 THEN <<>> ELSE <<v % 256>> \o LEBytes(v \div 256, n - 1)

Bytes(v, type) ==
    IF v >= 0 THEN LEBytes(v, Width(type))
    ELSE LET c == LEBytes(-v - 1, Width(type)) IN [i \in 1..Len(c) |-> 255 - c[i]]

\* a logical camera: the numeric model id, and the params as doubles
CameraLine(c) ==
    <<IntText(c.id), ModelNames[c.model_id + 1], IntText(c.width), IntText(c.height)>>
    \o [j \in 1..Len(c.params) |-> F64Text(c.params[j])]

CameraRecord(c) ==
    Bytes(c.id, "i32") \o Bytes(c.model_id, "i32") \o Bytes(c.width, "u64")
    \o Bytes(c.height, "u64") \o Concat([j \in 1..Len(c.params) |-> Bytes(c.params[j], "f64")])

\* a logical image: q = <<w, x, y, z>> and t = <<x, y, z>> as doubles, the
\* name as bytes, obs a sequence of <<x, y, point3d_id>>
ImageLineA(im) ==
    <<IntText(im.id)>> \o [j \in 1..4 |-> F64Text(im.q[j])]
    \o [j \in 1..3 |-> F64Text(im.t[j])] \o <<IntText(im.camera_id), im.name>>

ImageLineB(im) ==
    Concat([j \in 1..Len(im.obs) |->
               <<F64Text(im.obs[j][1]), F64Text(im.obs[j][2]), IntText(im.obs[j][3])>>])

ImageRecord(im) ==
    Bytes(im.id, "i32") \o Concat([j \in 1..4 |-> Bytes(im.q[j], "f64")])
    \o Concat([j \in 1..3 |-> Bytes(im.t[j], "f64")]) \o Bytes(im.camera_id, "i32")
    \o im.name \o <<NUL>> \o Bytes(Len(im.obs), "u64")
    \o Concat([j \in 1..Len(im.obs) |->
                  Bytes(im.obs[j][1], "f64") \o Bytes(im.obs[j][2], "f64")
                  \o Bytes(im.obs[j][3], "i64")])

\* a logical point: xyz and error as doubles, rgb as bytes, track a sequence of
\* <<image_id, point2d_idx>>
Point3DLine(pt) ==
    <<IntText(pt.id)>> \o [j \in 1..3 |-> F64Text(pt.xyz[j])]
    \o [j \in 1..3 |-> IntText(pt.rgb[j])] \o <<F64Text(pt.error)>>
    \o Concat([j \in 1..Len(pt.track) |-> <<IntText(pt.track[j][1]), IntText(pt.track[j][2])>>])

Point3DRecord(pt) ==
    Bytes(pt.id, "i64") \o Concat([j \in 1..3 |-> Bytes(pt.xyz[j], "f64")])
    \o Concat([j \in 1..3 |-> Bytes(pt.rgb[j], "u8")]) \o Bytes(pt.error, "f64")
    \o Bytes(Len(pt.track), "u64")
    \o Concat([j \in 1..Len(pt.track) |->
                  Bytes(pt.track[j][1], "i32") \o Bytes(pt.track[j][2], "i32")])

\* the lines (of tokens) of the text encoding of a scene
TextLines(kind, scene) ==
    CASE kind = "cameras" -> [i \in 1..Len(scene) |-> CameraLine(scene[i])]
      [] kind = "images" ->
            [i \in 1..2 * Len(scene) |->
                IF i % 2 = 1 THEN ImageLineA(scene[(i + 1) \div 2])
                ELSE ImageLineB(scene[i \div 2])]
      [] kind = "points3d" -> [i \in 1..Len(scene) |-> Point3DLine(scene[i])]

\* the binary encoding of a scene: the count, then the records
BinaryFile(kind, scene) ==
    Bytes(Len(scene), "u64")
    \o Concat([i \in 1..Len(scene) |->
                  CASE kind = "cameras" -> CameraRecord(scene[i])
                    [] kind = "images" -> ImageRecord(scene[i])
                    [] kind = "points3d" -> Point3DRecord(scene[i])])

(***************************************************************************)
(* The reconstructions and the files the readers are run on                *)
(***************************************************************************)
\* most records in a file
MaxRecords == 2

\* most observations of an image
MaxObs == 2

\* most pairs in the track of a point
MaxTrack == 2

\* most bytes cut off the end of a binary file
MaxCut == 3

Kinds == {"cameras", "images", "points3d"}

\* The params of the first camera of a scene: 100.0, 200.25, 300.5, 400.75, 500.0, ...
\* in grid units; a quarter of them are no singles.
ParamValue(j) == F64Grid * 100 * j + ((j - 1) % F64Grid)

\* the camera of the example of the spec: 1 PINHOLE 800 600 500.0 500.0 400.0 300.0
ExampleCamera ==
    [id |-> 1, model_id |-> 1, width |-> 800, height |-> 600,
     params |-> <<500 * F64Grid, 500 * F64Grid, 400 * F64Grid, 300 * F64Grid>>]

FirstCameras ==
    {[id |-> 1, model_id |-> m, width |-> 640, height |-> 480,
      params |-> [j \in 1..num_params(from_id(m)) |-> ParamValue(j)]] : m \in 0..10}
    \cup {ExampleCamera}

\* the cameras that may follow the first: another id, or the same id again
MoreCameras ==
    {[id |-> 2, model_id |-> 1, width |-> 32, height |-> 24, params |-> <<9, 10, 11, 12>>],
     [id |-> 1, model_id |-> 0, width |-> 32, height |-> 24, params |-> <<13, 14, 15>>]}

\* the first k of the observations <<x, y, point3d_id>>
SomeObs(k) == SubSeq(<< <<42, 81, -1>>, <<120, 163, 7>>, <<6, 3, 8>>, <<1, 2, 9>> >>, 1, k)

\* the image names: "a", "a b" and the two-byte UTF-8 sequence of e-acute
ImageNames == {<<97>>, <<97, SPACE, 98>>, <<195, 169>>}

FirstImages ==
    {[id |-> 1, q |-> <<4, 1, -2, 3>>, t |-> <<5, -6, 7>>, camera_id |-> 1, name |-> n,
      obs |-> SomeObs(k)] : n \in ImageNames, k \in 0..MaxObs}

MoreImages ==
    {[id |-> 2, q |-> <<0, 4, 0, 0>>, t |-> <<0, 1, 2>>, camera_id |-> 2, name |-> <<98>>,
      obs |-> SomeObs(1)],
     [id |-> 1, q |-> <<0, 0, 4, 0>>, t |-> <<3, 4, 5>>, camera_id |-> 1, name |-> <<99>>,
      obs |-> SomeObs(0)]}

\* the first k of the track pairs <<image_id, point2d_idx>>
SomeTrack(k) == SubSeq(<< <<1, 0>>, <<1, 3>>, <<2, 5>>, <<2, 4>> >>, 1, k)

FirstPoints ==
    {[id |-> i, xyz |-> <<5, -6, 7>>, rgb |-> <<255, 0, 128>>, error |-> 1,
      track |-> SomeTrack(k)] : i \in {1, 70000}, k \in 0..MaxTrack}

MorePoints ==
    {[id |-> 2, xyz |-> <<0, 1, 2>>, rgb |-> <<1, 2, 3>>, error |-> 0, track |-> SomeTrack(1)],
     [id |-> 1, xyz |-> <<3, 4, 5>>, rgb |-> <<4, 5, 6>>, error |-> 6, track |-> SomeTrack(0)]}

First(kind) ==
    CASE kind = "cameras" -> FirstCameras
      [] kind = "images" -> FirstImages
      [] kind = "points3d" -> FirstPoints

More(kind) ==
    CASE kind = "cameras" -> MoreCameras
      [] kind = "images" -> MoreImages
      [] kind = "points3d" -> MorePoints

\* the first record of a scene of several records
Lead(kind) ==
    CASE kind = "cameras" -> ExampleCamera
      [] kind = "images" ->
            [id |-> 1, q |-> <<4, 1, -2, 3>>, t |-> <<5, -6, 7>>, camera_id |-> 1,
             name |-> <<97>>, obs |-> SomeObs(MaxObs)]
      [] kind = "points3d" ->
            [id |-> 1, xyz |-> <<5, -6, 7>>, rgb |-> <<255, 0, 128>>, error |-> 1,
             track |-> SomeTrack(MaxTrack)]

\* the sequences of n records: no record, any first record alone, or the
\* lead record and the records that follow it
RECURSIVE ScenesOfLen(_, _)
ScenesOfLen(kind, n) ==
    IF n = 0 THEN {<<>>}
    ELSE IF n = 1 THEN {<<r>> : r \in First(kind)}
    ELSE IF n = 2 THEN {<<Lead(kind), r>> : r \in More(kind)}
    ELSE {Append(sc, r) : sc \in ScenesOfLen(kind, n - 1), r \in More(kind)}

Scenes(kind) == UNION {ScenesOfLen(kind, n) : n \in 0..MaxRecords}

\* A file is the encoding of a scene, possibly damaged in one place.
Intact == [file |-> "none", op |-> "none", line |-> 0, at |-> 0, tok |-> <<>>]

TokSeven == <<55>>

TokX == <<120>>

\* "pinhole": the name of a model in lower case
TokLower == <<112, 105, 110, 104, 111, 108, 101>>

\* the damages of a text file with these lines: the last token of a line
\* dropped, a token appended to a line, one of the first three tokens of a line
\* replaced, a comment line put before a line or after the last, (dropx) the
\* last token of a line dropped and its first token replaced, (keep) only the
\* first tokens of a line kept, (blank) an empty line put before a line or
\* after the last, (lower) the second token replaced by a lower-case model
\* name, (xx) the first two tokens replaced
TextDamages(lines) ==
    {[file |-> "text", op |-> "drop", line |-> i, at |-> 0, tok |-> <<>>] :
        i \in {j \in 1..Len(lines) : Len(lines[j]) > 0}}
    \cup {[file |-> "text", op |-> "append", line |-> i, at |-> 0, tok |-> t] :
        i \in 1..Len(lines), t \in {TokSeven, TokX}}
    \cup UNION {{[file |-> "text", op |-> "replace", line |-> i, at |-> k, tok |-> TokX] :
                    k \in {j \in 1..3 : j <= Len(lines[i])}} : i \in 1..Len(lines)}
    \cup {[file |-> "text", op |-> o, line |-> i, at |-> 0, tok |-> <<>>] :
        o \in {"comment", "blank"}, i \in 1..(Len(lines) + 1)}
    \cup UNION {{[file |-> "text", op |-> "keep", line |-> i, at |-> n, tok |-> <<>>] :
                    n \in 0..(Len(lines[i]) - 2)} : i \in 1..Len(lines)}
    \cup {[file |-> "text", op |-> "lower", line |-> i, at |-> 2, tok |-> TokLower] :
        i \in {j \in 1..Len(lines) : Len(lines[j]) > 1}}
    \cup {[file |-> "text", op |-> "xx", line |-> i, at |-> 2, tok |-> TokX] :
        i \in {j \in 1..Len(lines) : Len(lines[j]) > 1}}
    \cup {[file |-> "text", op |-> "dropx", line |-> i, at |-> 1, tok |-> TokX] :
        i \in {j \in 1..Len(lines) : Len(lines[j]) > 1}}

\* the damages of a binary file: bytes cut off its end (up to MaxCut of them,
\* and any number when the file holds at most one record), the count raised
\* by one, or (cameras) the model id of the first record replaced by 11
BinaryDamages(kind, file) ==
    {[file |-> "binary", op |-> "cut", line |-> 0, at |-> n, tok |-> <<>>] :
        n \in {j \in 1..Len(file) : j <= MaxCut \/ LEU(file, 1, 8) <= 1}}
    \cup {[file |-> "binary", op |-> "count", line |-> 0, at |-> 0, tok |-> <<>>]}
    \cup {[file |-> "binary", op |-> "model", line |-> 0, at |-> 0, tok |-> <<>>] :
        x \in {j \in {1} : kind = "cameras" /\ Len(file) > 8}}

\* bytes that stand in no UTF-8 text: 0xFF, and a lone continuation byte 0x80
BadBytes == {255, 128}

\* the damages of the binary file of images: the first byte of the name of a
\* record replaced by a byte that is not UTF-8 (a record is 64 bytes up to its
\* name)
NameDamages(kind, sc) ==
    {[file |-> "binary", op |-> "name", line |-> r,
      at |-> Len(BinaryFile(kind, SubSeq(sc, 1, r - 1))) + 65, tok |-> <<b>>] :
        r \in {j \in 1..Len(sc) : kind = "images"}, b \in BadBytes}

\* the damage of the text file of images that ends the file after the last
\* line A: the line B of the last record is not written
LineBDamages(kind, sc) ==
    {[file |-> "text", op |-> "unline", line |-> 2 * Len(sc) - 1, at |-> 0, tok |-> <<>>] :
        x \in {j \in {1} : kind = "images" /\ Len(sc) > 0}}

\* the damages of a binary file of images or points: the number of
\* observations or the track length of a record raised by 2^62 (64 in its top
\* byte).  The field ends 72 bytes and the name into an image record, and 51
\* bytes into a point record.
HugeDamages(kind, sc) ==
    {[file |-> "binary", op |-> "huge", line |-> r,
      at |-> Len(BinaryFile(kind, SubSeq(sc, 1, r - 1)))
             + (IF kind = "images" THEN 73 + Len(sc[r].name) ELSE 51),
      tok |-> <<64>>] :
        r \in {j \in 1..Len(sc) : kind \in {"images", "points3d"}}}

DamageLine(d, line) ==
    CASE d.op = "drop" -> SubSeq(line, 1, Len(line) - 1)
      [] d.op = "append" -> Append(line, d.tok)
      [] d.op = "replace" -> [line EXCEPT ![d.at] = d.tok]
      [] d.op = "dropx" -> [SubSeq(line, 1, Len(line) - 1) EXCEPT ![d.at] = d.tok]
      [] d.op = "keep" -> SubSeq(line, 1, d.at)
      [] d.op = "lower" -> [line EXCEPT ![d.at] = d.tok]
      [] d.op = "xx" -> [line EXCEPT ![1] = d.tok, ![d.at] = d.tok]

DamagedLines(d, lines) ==
    IF d.file # "text" THEN lines
    ELSE IF d.op = "comment"
    THEN SubSeq(lines, 1, d.line - 1) \o << <<<<HASH>>, <<99>>>> >>
         \o SubSeq(lines, d.line, Len(lines))
    ELSE IF d.op = "blank"
    THEN SubSeq(lines, 1, d.line - 1) \o << <<>> >> \o SubSeq(lines, d.line, Len(lines))
    ELSE IF d.op = "unline" THEN SubSeq(lines, 1, d.line)
    ELSE [lines EXCEPT ![d.line] = DamageLine(d, lines[d.line])]

DamagedBinary(d, file) ==
    IF d.file # "binary" THEN file
    ELSE CASE d.op = "cut" -> SubSeq(file, 1, Len(file) - d.at)
           [] d.op = "count" -> Bytes(LEU(file, 1, 8) + 1, "u64") \o SubSeq(file, 9, Len(file))
           [] d.op = "model" ->
                 SubSeq(file, 1, 12) \o Bytes(11, "i32") \o SubSeq(file, 17, Len(file))
           [] d.op \in {"name", "huge"} -> [file EXCEPT ![d.at] = d.tok[1]]

Damages(kind, sc) ==
    {Intact} \cup TextDamages(TextLines(kind, sc)) \cup BinaryDamages(kind, BinaryFile(kind, sc))
    \cup NameDamages(kind, sc) \cup LineBDamages(kind, sc) \cup HugeDamages(kind, sc)

(***************************************************************************)
(* State                                                                   *)
(***************************************************************************)
VARIABLES
    kind,       \* what the run exercises: the model table, or one of the readers
    scene,      \* the logical records the files were written from
    damage,     \* where one of the files departs from the encoding of scene
    textFile,   \* the bytes of the text file
    binFile,    \* the bytes of the binary file
    textOut,    \* what the reader returned for textFile (binary = false)
    binOut,     \* what the reader returned for binFile (binary = true)
    probe,      \* the last call of a CameraModel function or a Camera accessor
    panel,      \* the ScenePanel of the app, and what its last ui() drew
    calls       \* the reader calls that run at the same time, each with its locals

vars == <<kind, scene, damage, textFile, binFile, textOut, binOut, probe, panel, calls>>

\* no calls run at the same time
NoCalls == <<>>

\* no ScenePanel is part of a run of the readers
NoPanel == [zen |-> FALSE]

NoCall == [tag |-> "NoCall", kind |-> "", msg |-> "", map |-> EmptyMap]

NoProbe == [fn |-> "none", arg |-> 0, value |-> 0]

\* a run on the two files of one artifact
InitKind(k) ==
    /\ kind = k
    /\ scene \in Scenes(k)
    /\ damage \in Damages(k, scene)
    /\ textFile = FileText(DamagedLines(damage, TextLines(k, scene)))
    /\ binFile = DamagedBinary(damage, BinaryFile(k, scene))
    /\ textOut = NoCall
    /\ binOut = NoCall
    /\ probe = NoProbe
    /\ panel = NoPanel
    /\ calls = NoCalls

\* a run on the model table alone: no files
InitModels ==
    /\ kind = "models"
    /\ scene = <<>>
    /\ damage = Intact
    /\ textFile = <<>>
    /\ binFile = <<>>
    /\ textOut = NoCall
    /\ binOut = NoCall
    /\ probe = NoProbe
    /\ panel = NoPanel
    /\ calls = NoCalls

Init == InitModels \/ \E k \in Kinds : InitKind(k)

(***************************************************************************)
(* Actions: one per function of the crate                                  *)
(***************************************************************************)
\* the file a call with this mode is given
Source(binary) == IF binary THEN binFile ELSE textFile

Returned(binary, out) ==
    /\ textOut' = IF binary THEN textOut ELSE out
    /\ binOut' = IF binary THEN out ELSE binOut
    /\ UNCHANGED <<kind, scene, damage, textFile, binFile, probe, panel, calls>>

NotCalled(binary) == IF binary THEN binOut = NoCall ELSE textOut = NoCall

ReadCameras ==
    \E binary \in BOOLEAN :
        /\ kind = "cameras"
        /\ NotCalled(binary)
        /\ Returned(binary, read_cameras(Source(binary), binary))

ReadImages ==
    \E binary \in BOOLEAN :
        /\ kind = "images"
        /\ NotCalled(binary)
        /\ Returned(binary, read_images(Source(binary), binary))

ReadPoints3d ==
    \E binary \in BOOLEAN :
        /\ kind = "points3d"
        /\ NotCalled(binary)
        /\ Returned(binary, read_points3d(Source(binary), binary))

Probed(fn, arg, value) ==
    /\ probe' = [fn |-> fn, arg |-> arg, value |-> value]
    /\ UNCHANGED <<kind, scene, damage, textFile, binFile, textOut, binOut, panel, calls>>

\* the numeric ids from_id is called on: those of the models, and one on each side
ModelIds == -1..11

\* the names from_name is called on: those of the models, "pinhole", "x" and ""
Names == {ModelNames[i] : i \in 1..Len(ModelNames)}
         \cup {<<112, 105, 110, 104, 111, 108, 101>>, TokX, <<>>}

FromId == \E id \in ModelIds : kind = "models" /\ Probed("from_id", id, from_id(id))

FromName == \E name \in Names : kind = "models" /\ Probed("from_name", name, from_name(name))

NumParams ==
    \E model \in CameraModel : kind = "models" /\ Probed("num_params", model, num_params(model))

\* the Cameras the caller holds
Cameras ==
    {textOut.map[k] : k \in DOMAIN textOut.map} \cup {binOut.map[k] : k \in DOMAIN binOut.map}

Focal == \E c \in Cameras : kind = "cameras" /\ Probed("focal", c, focal(c))

PrincipalPoint ==
    \E c \in Cameras : kind = "cameras" /\ Probed("principal_point", c, principal_point(c))

Next ==
    \/ ReadCameras
    \/ ReadImages
    \/ ReadPoints3d
    \/ FromId
    \/ FromName
    \/ NumParams
    \/ Focal
    \/ PrincipalPoint

Spec == Init /\ [][Next]_vars

(***************************************************************************)
(* brush-app: ScenePanel                                                   *)
(***************************************************************************)
\* most frames of an animation: frame and total_frames of ViewSplats are in
\* 0..MaxFrames
MaxFrames == 2

\* the longest predicted_dt of a draw, in ticks
MaxDt == 1

\* the play time up to which draws are followed, in ticks
MaxTime == 5

\* Time is counted in ticks, TicksPerFrame of them to a frame at FPS = 24: the
\* field frame holds seconds, frame * FPS is ticks / TicksPerFrame.
TicksPerFrame == 2

Min(a, b) == IF a < b THEN a ELSE b

\* what a call of ui() showed: for a draw of splats, the frame index computed
\* and the view_splats.len() it indexed
Drawn(what, index, len) == [what |-> what, index |-> index, len |-> len]

\* ScenePanel::new
NewPanel(zen) ==
    [view_splats |-> <<>>, frame_count |-> 0, frame |-> 0, live_update |-> TRUE,
     paused |-> FALSE, err |-> FALSE, zen |-> zen, last_state |-> "None",
     drawn |-> Drawn("nothing", 0, 0)]

\* Vec::truncate(len) followed by Vec::push(x)
truncate_push(v, len, x) == Append(SubSeq(v, 1, Min(Len(v), len)), x)

\* the frame after the clamp of lines 282-285 left it at its value
ui_frame_unclamped(self, frame) == frame

\* lines 282-285: max_t = (len - 1) / FPS, in ticks
ui_frame_clamped(self, frame) ==
    IF Len(self.view_splats) # self.frame_count
    THEN Min(frame, (Len(self.view_splats) - 1) * TicksPerFrame)
    ELSE frame

\* lines 287-289: (frame * FPS).rem_euclid(frame_count as f32).floor() as usize;
\* the remainder by 0.0 is NaN, and NaN as usize is 0
ui_frame_index(frame, frame_count) ==
    IF frame_count = 0 THEN 0
    ELSE (frame % (frame_count * TicksPerFrame)) \div TicksPerFrame

\* line 290: self.view_splats[frame], a panic when frame is no index
ui_select(self, index) ==
    IF index >= Len(self.view_splats)
    THEN Drawn("panic", index, Len(self.view_splats))
    ELSE Drawn("splats", index, Len(self.view_splats))

\* lines 85-87 and 125-129 of draw_splats: nothing happens in a view smaller
\* than 8 pixels, else the state drawn is remembered
draw_splats(self, small) == IF small THEN self.last_state ELSE "Some"

\* lines 294-304 and 314-327: the play/pause label is shown for an animation
\* that is complete, the training label while training; a click toggles
ui_paused(self, training, play_clicked, pause_clicked) ==
    (self.paused
     # (Len(self.view_splats) > 1 /\ Len(self.view_splats) = self.frame_count /\ play_clicked))
    # (training /\ pause_clicked)

\* lines 276-385 for the frame advanced by predicted_dt and clamped
ui_splats(self, frame, training, small, play_clicked, pause_clicked, live_clicked) ==
    IF ui_frame_index(frame, self.frame_count) >= Len(self.view_splats)
    THEN [self EXCEPT !.frame = frame,
                      !.drawn = ui_select(self, ui_frame_index(frame, self.frame_count))]
    ELSE [self EXCEPT !.frame = frame,
                      !.drawn = ui_select(self, ui_frame_index(frame, self.frame_count)),
                      !.last_state = draw_splats(self, small),
                      !.paused = ui_paused(self, training, play_clicked, pause_clicked),
                      !.live_update = (self.live_update # (training /\ live_clicked))]

\* ScenePanel::ui
ui(self, dt, training, small, play_clicked, pause_clicked, live_clicked) ==
    IF ~training /\ Len(self.view_splats) = 0 /\ ~self.err /\ ~self.zen
    THEN [self EXCEPT !.drawn = Drawn("prompt", 0, 0)]
    ELSE IF self.err THEN [self EXCEPT !.drawn = Drawn("error", 0, 0)]
    ELSE IF Len(self.view_splats) # 0
    THEN ui_splats(self,
                   ui_frame_clamped(self, IF self.paused THEN self.frame ELSE self.frame + dt),
                   training, small, play_clicked, pause_clicked, live_clicked)
    ELSE [self EXCEPT !.drawn = Drawn("nothing", 0, 0)]

\* the splats a message carries: those of a frame of an animation, or those of
\* a training step
FrameSplats == "frame"

StepSplats == "step"

InitPanel ==
    /\ kind = "panel"
    /\ scene = <<>>
    /\ damage = Intact
    /\ textFile = <<>>
    /\ binFile = <<>>
    /\ textOut = NoCall
    /\ binOut = NoCall
    /\ probe = NoProbe
    /\ calls = NoCalls
    /\ \E zen \in BOOLEAN : panel = NewPanel(zen)

PanelStep(next) ==
    /\ panel.drawn.what # "panic"
    /\ panel' = next
    /\ UNCHANGED <<kind, scene, damage, textFile, binFile, textOut, binOut, probe, calls>>

\* on_message(ProcessMessage::NewSource)
NewSource ==
    PanelStep([panel EXCEPT !.view_splats = <<>>, !.frame_count = 0, !.live_update = TRUE,
                            !.paused = FALSE, !.err = FALSE, !.last_state = "None",
                            !.frame = 0])

\* on_message(ProcessMessage::ViewSplats { splats, frame, total_frames, .. })
ViewSplats ==
    \E frame \in 0..MaxFrames, total_frames \in 0..MaxFrames :
        PanelStep([panel EXCEPT
                     !.view_splats = IF panel.live_update
                                     THEN truncate_push(panel.view_splats, frame, FrameSplats)
                                     ELSE panel.view_splats,
                     !.frame_count = total_frames,
                     !.last_state = "None"])

\* on_message(ProcessMessage::TrainStep { splats, .. })
TrainStep ==
    PanelStep([panel EXCEPT
                 !.last_state = "None",
                 !.view_splats = IF panel.live_update THEN <<StepSplats>>
                                 ELSE panel.view_splats])

\* on_message(ProcessMessage::Error(e))
Error == PanelStep([panel EXCEPT !.err = TRUE])

\* a draw of the panel, with the input of the frame: the time step, whether
\* training runs, the size of the view and the labels clicked
Ui ==
    \E dt \in 0..MaxDt, training, small, play_clicked, pause_clicked, live_clicked \in BOOLEAN :
        /\ panel.frame + dt <= MaxTime
        /\ PanelStep(ui(panel, dt, training, small, play_clicked, pause_clicked, live_clicked))

ScenePanelNext ==
    \/ NewSource
    \/ ViewSplats
    \/ TrainStep
    \/ Error
    \/ Ui

ScenePanelSpec == InitPanel /\ [][ScenePanelNext]_vars

(***************************************************************************)
(* The readers step by step: calls that run at the same time               *)
(***************************************************************************)
\* A call is the locals of one invocation of read_cameras, read_images or
\* read_points3d: its reader, the position in it, the records still to read
\* (binary), the mapping built so far, where the call is ("entry", "loop" or
\* "returned") and what it returned.
Call(k, binary, reader) ==
    [kind |-> k, binary |-> binary, reader |-> reader, pos |-> 1, left |-> 0,
     map |-> EmptyMap, pc |-> "entry", out |-> NoCall]

\* the call returns out (or panics)
returns(c, out) == [c EXCEPT !.pc = "returned", !.out = out]

\* the loop goes on at pos with the mapping map
continues(c, pos, map) ==
    [c EXCEPT !.pos = pos, !.map = map, !.left = IF c.binary THEN c.left - 1 ELSE 0]

\* the entry of a binary reader: HashMap::new() and the read of the count
enter_binary(c, count) ==
    IF ~count.ok THEN returns(c, UnexpectedEof)
    ELSE [c EXCEPT !.pc = "loop", !.pos = count.pos, !.left = count.v]

\* the entry of a reader: the dispatch on `binary`, then HashMap::new() and
\* BufReader::new(reader), or the read of the count
enter(c, file) ==
    IF c.binary THEN enter_binary(c, read(file, 1, "u64")) ELSE [c EXCEPT !.pc = "loop"]

\* one turn of the while loop of read_cameras_text or read_points3d_text on
\* the line read, rec being what the body makes of a line that is no comment
text_record(c, line, rec, id, value) ==
    IF rec.tag # "Ok" THEN returns(c, rec)
    ELSE continues(c, c.pos + Len(line), insert(c.map, id, value))

cameras_text_step(c, line) ==
    IF ~is_utf8(line) THEN returns(c, NotUtf8)
    ELSE IF Len(line) = 0 THEN returns(c, Ok(c.map))
    ELSE IF starts_with_hash(line) THEN continues(c, c.pos + Len(line), c.map)
    ELSE text_record(c, line, camera_line(line), camera_line(line).map.id,
                     camera_line(line).map)

points3d_text_step(c, line) ==
    IF ~is_utf8(line) THEN returns(c, NotUtf8)
    ELSE IF Len(line) = 0 THEN returns(c, Ok(c.map))
    ELSE IF starts_with_hash(line) THEN continues(c, c.pos + Len(line), c.map)
    ELSE text_record(c, line, point3d_line(line), point3d_line(line).map.id,
                     point3d_line(line).map.point)

\* one turn of the loop of read_images_text: line A, and line B when line A is
\* no comment
images_text_pair(c, lines, rec) ==
    IF rec.tag # "Ok" THEN returns(c, rec)
    ELSE continues(c, c.pos + Len(lines), insert(c.map, rec.map.id, rec.map.image))

images_text_step(c, file, line) ==
    IF ~is_utf8(line) THEN returns(c, NotUtf8)
    ELSE IF Len(line) = 0 THEN returns(c, Ok(c.map))
    ELSE IF starts_with_hash(line) THEN continues(c, c.pos + Len(line), c.map)
    ELSE images_text_pair(c, line \o read_line(file, c.pos + Len(line)),
                          image_lines(line, read_line(file, c.pos + Len(line))))

\* one turn of the for loop of read_cameras_binary
cameras_binary_params(c, v, model, params) ==
    IF ~params.ok THEN returns(c, UnexpectedEof)
    ELSE continues(c, params.pos,
                   insert(c.map, v[1], Camera(v[1], model, v[3], v[4], params.v)))

cameras_binary_head(c, file, head) ==
    IF ~head.ok THEN returns(c, UnexpectedEof)
    ELSE IF from_id(head.v[2]) = None THEN returns(c, InvalidData("Invalid camera model"))
    ELSE cameras_binary_params(c, head.v, from_id(head.v[2]),
             read_fields(file, head.pos, Repeat("f64", num_params(from_id(head.v[2])))))

cameras_binary_step(c, file) ==
    cameras_binary_head(c, file, read_fields(file, c.pos, <<"i32", "i32", "u64", "u64">>))

\* one turn of the for loop of read_images_binary
images_binary_obs(c, v, name, obs) ==
    IF ~obs.ok THEN returns(c, UnexpectedEof)
    ELSE continues(c, obs.pos,
             insert(c.map, v[1],
                    Image(quat(as_f32(v[3]), as_f32(v[4]), as_f32(v[5]), as_f32(v[2])),
                          <<as_f32(v[6]), as_f32(v[7]), as_f32(v[8])>>, v[9], name,
                          obs.xys, obs.point3d_ids)))

images_binary_num(c, file, v, name, pos) ==
    IF pos + 7 > Len(file) THEN returns(c, UnexpectedEof)
    ELSE IF capacity_overflow(file, pos, 8) THEN returns(c, Panic("capacity overflow"))
    ELSE images_binary_obs(c, v, name,
             points2d(file, pos + 8, read(file, pos, "u64").v, <<>>, <<>>))

images_binary_head(c, file, head, name_bytes) ==
    IF ~head.ok THEN returns(c, UnexpectedEof)
    ELSE IF Len(name_bytes) = 0 THEN returns(c, Panic("attempt to subtract with overflow"))
    ELSE IF ~is_utf8(SubSeq(name_bytes, 1, Len(name_bytes) - 1))
    THEN returns(c, InvalidData("invalid utf-8 sequence"))
    ELSE images_binary_num(c, file, head.v, SubSeq(name_bytes, 1, Len(name_bytes) - 1),
                           head.pos + Len(name_bytes))

images_binary_fields(c, file, head) ==
    images_binary_head(c, file, head, read_until_nul(file, head.pos))

images_binary_step(c, file) ==
    images_binary_fields(c, file,
        read_fields(file, c.pos,
            <<"i32", "f64", "f64", "f64", "f64", "f64", "f64", "f64", "i32">>))

\* one turn of the for loop of read_points3d_binary
points3d_binary_pairs(c, v, track) ==
    IF ~track.ok THEN returns(c, UnexpectedEof)
    ELSE continues(c, track.pos,
             insert(c.map, v[1],
                    Point3D(<<as_f32(v[2]), as_f32(v[3]), as_f32(v[4])>>,
                            <<v[5], v[6], v[7]>>, v[8], track.image_ids, track.point2d_idxs)))

points3d_binary_head(c, file, head) ==
    IF ~head.ok \/ head.pos + 7 > Len(file) THEN returns(c, UnexpectedEof)
    ELSE IF capacity_overflow(file, head.pos, 4) THEN returns(c, Panic("capacity overflow"))
    ELSE points3d_binary_pairs(c, head.v,
             track_pairs(file, head.pos + 8, read(file, head.pos, "u64").v, <<>>, <<>>))

points3d_binary_step(c, file) ==
    points3d_binary_head(c, file,
        read_fields(file, c.pos, <<"i64", "f64", "f64", "f64", "u8", "u8", "u8", "f64">>))

\* one turn of the loop of a binary reader: the range 0..num is at its end, or
\* a record is read
binary_step(c, file) ==
    IF c.left = 0 THEN returns(c, Ok(c.map))
    ELSE CASE c.kind = "cameras" -> cameras_binary_step(c, file)
           [] c.kind = "images" -> images_binary_step(c, file)
           [] c.kind = "points3d" -> points3d_binary_step(c, file)

text_step(c, file) ==
    CASE c.kind = "cameras" -> cameras_text_step(c, read_line(file, c.pos))
      [] c.kind = "images" -> images_text_step(c, file, read_line(file, c.pos))
      [] c.kind = "points3d" -> points3d_text_step(c, read_line(file, c.pos))

\* the stream call i reads: the reader it was given, which it owns
stream(cs, i) == cs[i].reader

\* the threads that call a reader at the same time
Callers == {1, 2}

\* what the calls are given: the files of the scenes of MaxRecords records,
\* as written, or with an empty line first (text), a count raised by one, a
\* track length or a number of observations of 2^62, or the last byte cut off
\* (binary)
CallDamages(k, sc) ==
    {Intact}
    \cup {d \in TextDamages(TextLines(k, sc)) : d.op = "blank" /\ d.line = 1}
    \cup {d \in BinaryDamages(k, BinaryFile(k, sc)) : d.op = "count" \/ (d.op = "cut" /\ d.at = 1)}
    \cup {d \in HugeDamages(k, sc) : d.line = 1}

CallInputs ==
    UNION {UNION {UNION {
        {Call(k, FALSE, FileText(DamagedLines(d, TextLines(k, sc)))) :
            x \in {j \in {1} : d.file # "binary"}}
        \cup {Call(k, TRUE, DamagedBinary(d, BinaryFile(k, sc))) :
            x \in {j \in {1} : d.file # "text"}}
        : d \in CallDamages(k, sc)} : sc \in ScenesOfLen(k, MaxRecords)} : k \in Kinds}

InitCalls ==
    /\ kind = "calls"
    /\ scene = <<>>
    /\ damage = Intact
    /\ textFile = <<>>
    /\ binFile = <<>>
    /\ textOut = NoCall
    /\ binOut = NoCall
    /\ probe = NoProbe
    /\ panel = NoPanel
    /\ calls \in [Callers -> CallInputs]

\* a step of call i that writes the mapping all calls share
SteppedSharedMap(i, c) ==
    /\ calls' = [j \in Callers |-> IF j = i THEN c ELSE [calls[j] EXCEPT !.map = c.map]]
    /\ UNCHANGED <<kind, scene, damage, textFile, binFile, textOut, binOut, probe, panel>>

\* a step of call i: it changes the locals of call i and nothing else
Stepped(i, c) ==
    /\ calls' = [calls EXCEPT ![i] = c]
    /\ UNCHANGED <<kind, scene, damage, textFile, binFile, textOut, binOut, probe, panel>>

\* call i enters its reader
Enter(i) ==
    /\ kind = "calls"
    /\ calls[i].pc = "entry"
    /\ Stepped(i, enter(calls[i], stream(calls, i)))

\* call i makes one turn of its loop
Turn(i) ==
    /\ kind = "calls"
    /\ calls[i].pc = "loop"
    /\ Stepped(i, IF calls[i].binary THEN binary_step(calls[i], stream(calls, i))
                  ELSE text_step(calls[i], stream(calls, i)))

CallsNext == \E i \in Callers : Enter(i) \/ Turn(i)

\* a thread that can run does run: the calls do not all stand still for ever
CallsSpec == InitCalls /\ [][CallsNext]_vars /\ WF_vars(CallsNext)

(***************************************************************************)
(* Properties                                                              *)
(***************************************************************************)
\* the ids of the records of the scene
Ids == {scene[i].id : i \in 1..Len(scene)}

\* record i is the last of the scene with its id: the one an insert keeps
LastWithId(i) == \A j \in (i + 1)..Len(scene) : scene[j].id # scene[i].id

\* both files are valid encodings of the scene: nothing is damaged, or a
\* comment line stands before a record of the text file
ValidFiles ==
    \/ damage = Intact
    \/ damage.op = "comment" /\ (kind = "images" => damage.line % 2 = 1)

\* the lines of the text file, as the tokens written
WrittenLines == DamagedLines(damage, TextLines(kind, scene))

\* C1: read_cameras on the valid text encoding and on the valid binary
\* encoding of the same cameras returns the same mapping: both calls return
\* Ok, the keys are the ids of the cameras, and per key the Cameras (id,
\* model, width, height, params) are equal.
C1_CamerasTextBinaryIdentical ==
    (kind = "cameras" /\ ValidFiles /\ textOut.tag # "NoCall" /\ binOut.tag # "NoCall")
    => /\ textOut.tag = "Ok"
       /\ binOut.tag = "Ok"
       /\ DOMAIN textOut.map = Ids
       /\ textOut.map = binOut.map

\* the example of the spec, read from both files
C1_Witness ==
    /\ kind = "cameras"
    /\ damage = Intact
    /\ scene = <<ExampleCamera>>
    /\ textOut = Ok(1 :> Camera(1, "Pinhole", 800, 600,
                                <<500 * F64Grid, 500 * F64Grid, 400 * F64Grid, 300 * F64Grid>>))
    /\ binOut = textOut

\* C2: read_images on the valid text encoding and on the valid binary
\* encoding of the same images returns the same mapping: both calls return Ok,
\* the keys are the ids of the images, and per key the Images (quat, tvec,
\* camera_id, the whole name, xys, point3d_ids) are equal.
C2_ImagesTextBinaryIdentical ==
    (kind = "images" /\ ValidFiles /\ textOut.tag # "NoCall" /\ binOut.tag # "NoCall")
    => /\ textOut.tag = "Ok"
       /\ binOut.tag = "Ok"
       /\ DOMAIN textOut.map = Ids
       /\ textOut.map = binOut.map

\* C3: read_points3d on the valid text encoding and on the valid binary
\* encoding of the same points returns the same mapping: both calls return Ok,
\* the keys are the ids of the points, and per key the Point3Ds (xyz, rgb,
\* error, image_ids, point2d_idxs) are equal.
C3_PointsTextBinaryIdentical ==
    (kind = "points3d" /\ ValidFiles /\ textOut.tag # "NoCall" /\ binOut.tag # "NoCall")
    => /\ textOut.tag = "Ok"
       /\ binOut.tag = "Ok"
       /\ DOMAIN textOut.map = Ids
       /\ textOut.map = binOut.map

\* a point with a 64-bit id, a position that is narrowed and a track of two
\* pairs, read from both files
C3_Witness ==
    /\ kind = "points3d"
    /\ damage = Intact
    /\ Len(scene) = 1
    /\ textOut = Ok(70000 :> Point3D(<<as_f32(5), as_f32(-6), as_f32(7)>>, <<255, 0, 128>>, 1,
                                     <<1, 1>>, <<0, 3>>))
    /\ binOut = textOut

\* C4: every call of read_cameras, read_images or read_points3d ends either
\* with Ok and a mapping that holds an entry for the id of every record, or
\* with an error and no mapping; there is no third outcome.
C4_MappingOrError ==
    \A out \in {textOut, binOut} :
        \/ out.tag = "NoCall"
        \/ out.tag = "Ok" /\ (ValidFiles => Ids \subseteq DOMAIN out.map)
        \/ out.tag = "Err" /\ out.map = EmptyMap

\* C5: every Camera of a mapping returned by read_cameras, in either mode,
\* has as many params as num_params gives for its model.
C5_ParamsLenIsNumParams ==
    \A out \in {textOut, binOut} :
        (kind = "cameras" /\ out.tag = "Ok")
        => \A k \in DOMAIN out.map : Len(out.map[k].params) = num_params(out.map[k].model)

\* a camera of 12 params returned in both modes
C5_Witness ==
    /\ kind = "cameras"
    /\ textOut.tag = "Ok"
    /\ binOut.tag = "Ok"
    /\ \E k \in DOMAIN textOut.map :
          /\ textOut.map[k].model = "FullOpenCV"
          /\ Len(textOut.map[k].params) = 12
          /\ Len(binOut.map[k].params) = 12

\* the line is a camera line of at least 4 tokens with a recognized model
\* name and a number of trailing tokens that is not the model's num_params
CountMismatch(line) ==
    /\ Len(line) >= 4
    /\ from_name(line[2]) # None
    /\ Len(line) - 4 # num_params(from_name(line[2]))

\* the id, width, height and trailing tokens of the line all parse
TokensParse(line) ==
    /\ parse_i32(line[1]).ok
    /\ parse_u64(line[3]).ok
    /\ parse_u64(line[4]).ok
    /\ \A j \in 5..Len(line) : parse_f64(line[j]).ok

\* C6 as stated: in text mode a camera line of at least 4 tokens with a
\* recognized model name whose number of trailing tokens differs from the
\* model's count makes read_cameras fail with "Invalid number of camera
\* parameters" (every other line of the file being a valid record).
C6_MismatchAlwaysParamCount ==
    (kind = "cameras" /\ textOut.tag # "NoCall")
    => \A i \in 1..Len(WrittenLines) :
          CountMismatch(WrittenLines[i])
          => textOut = InvalidData("Invalid number of camera parameters")

\* C6 amended: the same, for a line whose id, width, height and trailing
\* tokens all parse as numbers; a token that does not parse fails the read
\* with "Parse error" before the count is compared.
C6_MismatchOfParsedTokens ==
    (kind = "cameras" /\ textOut.tag # "NoCall")
    => \A i \in 1..Len(WrittenLines) :
          (CountMismatch(WrittenLines[i]) /\ TokensParse(WrittenLines[i]))
          => textOut = InvalidData("Invalid number of camera parameters")

\* a FOV line with one parameter too many is refused
C6_Witness ==
    /\ kind = "cameras"
    /\ damage.op = "append"
    /\ damage.tok = TokSeven
    /\ from_name(WrittenLines[damage.line][2]) = "Fov"
    /\ Len(WrittenLines[damage.line]) = 4 + 6
    /\ TokensParse(WrittenLines[damage.line])
    /\ textOut = InvalidData("Invalid number of camera parameters")

\* C7: every Image of a mapping returned by read_images, in either mode, has
\* as many xys as point3d_ids; in binary mode this is the number of
\* observations its record declares.
C7_ObservationsParallel ==
    /\ \A out \in {textOut, binOut} :
          (kind = "images" /\ out.tag = "Ok")
          => \A k \in DOMAIN out.map : Len(out.map[k].xys) = Len(out.map[k].point3d_ids)
    /\ (kind = "images" /\ binOut.tag = "Ok")
       => \A i \in 1..Len(scene) :
             LastWithId(i) => Len(binOut.map[scene[i].id].xys) = Len(scene[i].obs)

\* an image of two observations, the first unmatched, returned in both modes
C7_Witness ==
    /\ kind = "images"
    /\ Len(scene) = 1
    /\ Len(scene[1].obs) = 2
    /\ textOut.tag = "Ok"
    /\ binOut.tag = "Ok"
    /\ Len(textOut.map[1].xys) = 2
    /\ binOut.map[1].point3d_ids = <<-1, 7>>
    /\ Len(binOut.map[1].xys) = 2

\* C8: every Point3D of a mapping returned by read_points3d, in either mode,
\* has as many image_ids as point2d_idxs; in binary mode this is the track
\* length its record declares.
C8_TrackParallel ==
    /\ \A out \in {textOut, binOut} :
          (kind = "points3d" /\ out.tag = "Ok")
          => \A k \in DOMAIN out.map :
                Len(out.map[k].image_ids) = Len(out.map[k].point2d_idxs)
    /\ (kind = "points3d" /\ binOut.tag = "Ok")
       => \A i \in 1..Len(scene) :
             LastWithId(i) => Len(binOut.map[scene[i].id].image_ids) = Len(scene[i].track)

\* a point with a track of two pairs returned in both modes
C8_Witness ==
    /\ kind = "points3d"
    /\ Len(scene) = 1
    /\ Len(scene[1].track) = 2
    /\ textOut.tag = "Ok"
    /\ binOut.tag = "Ok"
    /\ Len(textOut.map[scene[1].id].image_ids) = 2
    /\ Len(textOut.map[scene[1].id].point2d_idxs) = 2
    /\ binOut.map[scene[1].id].image_ids = <<1, 1>>
    /\ binOut.map[scene[1].id].point2d_idxs = <<0, 3>>

\* the table of the spec: the variants in the order of their ids, and the
\* parameter count of each
TableModels ==
    <<"SimplePinhole", "Pinhole", "SimpleRadial", "Radial", "OpenCV", "OpenCvFishEye",
      "FullOpenCV", "Fov", "SimpleRadialFisheye", "RadialFisheye", "ThinPrismFisheye">>

TableCounts == <<3, 4, 4, 5, 8, 8, 12, 5, 4, 5, 12>>

\* C9: num_params gives the count of the table for each of the 11 variants,
\* and id i (0..10) and the i-th name SIMPLE_PINHOLE .. THIN_PRISM_FISHEYE
\* both give the i-th variant of the table.
C9_ModelTable ==
    /\ probe.fn = "num_params"
       => \A i \in 1..11 : probe.arg = TableModels[i] => probe.value = TableCounts[i]
    /\ probe.fn = "from_id"
       => \A i \in 1..11 : probe.arg = i - 1 => probe.value = TableModels[i]
    /\ probe.fn = "from_name"
       => \A i \in 1..11 : probe.arg = ModelNames[i] => probe.value = TableModels[i]

\* num_params called on OpenCvFishEye, the variant of id 5
C9_Witness ==
    /\ probe.fn = "num_params"
    /\ probe.arg = from_id(5)
    /\ probe.arg = from_name(ModelNames[6])
    /\ probe.value = 8

\* the table of the spec: the 0-based indices <<fx, fy, px, py>> of a model
TableIndices(model) ==
    IF model \in {"SimplePinhole", "SimpleRadial", "Radial", "SimpleRadialFisheye",
                  "RadialFisheye"}
    THEN <<0, 0, 1, 2>>
    ELSE <<0, 1, 2, 3>>

\* C10 as stated: focal returns (params[fx], params[fy]) and principal_point
\* returns (params[px], params[py]), with the indices of the table.
C10_AccessorsReturnParams ==
    /\ probe.fn = "focal"
       => probe.value = <<probe.arg.params[TableIndices(probe.arg.model)[1] + 1],
                          probe.arg.params[TableIndices(probe.arg.model)[2] + 1]>>
    /\ probe.fn = "principal_point"
       => probe.value = <<probe.arg.params[TableIndices(probe.arg.model)[3] + 1],
                          probe.arg.params[TableIndices(probe.arg.model)[4] + 1]>>

\* C10 amended: focal returns the doubles (params[fx], params[fy]);
\* principal_point returns params[px] and params[py] each converted to single
\* precision, which is the param itself only when a single holds it exactly.
C10_PrincipalPointNarrowed ==
    /\ probe.fn = "focal"
       => probe.value = <<probe.arg.params[TableIndices(probe.arg.model)[1] + 1],
                          probe.arg.params[TableIndices(probe.arg.model)[2] + 1]>>
    /\ probe.fn = "principal_point"
       => probe.value = <<as_f32(probe.arg.params[TableIndices(probe.arg.model)[3] + 1]),
                          as_f32(probe.arg.params[TableIndices(probe.arg.model)[4] + 1])>>

\* principal_point of a Radial camera whose params[1] is no single
C10_Witness ==
    /\ probe.fn = "principal_point"
    /\ probe.arg.model = "Radial"
    /\ probe.arg.params[2] = ParamValue(2)
    /\ probe.value[1] # ParamValue(2)
    /\ probe.value = <<as_f32(ParamValue(2)), as_f32(ParamValue(3))>>

\* C11: for every model the indices used by focal and principal_point lie in
\* 0 .. num_params(model) - 1, and neither accessor panics on a Camera that
\* read_cameras returned.
C11_IndicesInRange ==
    probe.fn \in {"focal", "principal_point"}
    => /\ probe.value # Panicked
       /\ \A i \in {0, focal_y_index(probe.arg.model),
                    principal_point_x_index(probe.arg.model),
                    principal_point_y_index(probe.arg.model)} :
             i >= 0 /\ i < num_params(probe.arg.model)

\* principal_point of a SimplePinhole camera, the model of fewest params
C11_Witness ==
    /\ probe.fn = "principal_point"
    /\ probe.arg.model = "SimplePinhole"
    /\ Len(probe.arg.params) = 3
    /\ principal_point_y_index(probe.arg.model) = 2
    /\ probe.value = <<as_f32(probe.arg.params[2]), as_f32(probe.arg.params[3])>>

\* the token is exactly one of the 11 model names
KnownName(tok) == \E i \in 1..Len(ModelNames) : tok = ModelNames[i]

\* the line is no comment and has a second token that is no model name
UnknownModelLine(line) ==
    /\ Len(line) >= 2
    /\ line[1][1] # HASH
    /\ ~KnownName(line[2])

\* from_id and from_name give a variant for the 11 ids and the 11 names and
\* None for everything else
OnlyKnownModels ==
    /\ probe.fn = "from_id" => (probe.value # None <=> probe.arg \in 0..10)
    /\ probe.fn = "from_name" => (probe.value # None <=> KnownName(probe.arg))

\* C12 as stated: a camera record with an unknown model fails with "Invalid
\* camera model": a text line whose model-name token is not one of the 11
\* names, and a binary record whose model id is outside 0..10; from_id and
\* from_name know the 11 ids and names and nothing else.
C12_UnknownModelAlwaysReported ==
    /\ (kind = "cameras" /\ textOut.tag # "NoCall")
       => \A i \in 1..Len(WrittenLines) :
             UnknownModelLine(WrittenLines[i]) => textOut = InvalidData("Invalid camera model")
    /\ (kind = "cameras" /\ binOut.tag # "NoCall" /\ damage.op = "model")
       => binOut = InvalidData("Invalid camera model")
    /\ OnlyKnownModels

\* C12 amended: the same for a text line of at least 4 tokens whose id token
\* parses; a shorter line fails with "Invalid camera data" and an id that does
\* not parse with "Parse error", both before the name is looked up.
C12_UnknownModelAfterId ==
    /\ (kind = "cameras" /\ textOut.tag # "NoCall")
       => \A i \in 1..Len(WrittenLines) :
             (/\ UnknownModelLine(WrittenLines[i])
              /\ Len(WrittenLines[i]) >= 4
              /\ parse_i32(WrittenLines[i][1]).ok)
             => textOut = InvalidData("Invalid camera model")
    /\ (kind = "cameras" /\ binOut.tag # "NoCall" /\ damage.op = "model")
       => binOut = InvalidData("Invalid camera model")
    /\ OnlyKnownModels

\* the line "1 pinhole 800 600 500.0 500.0 400.0 300.0" is refused
C12_Witness ==
    /\ kind = "cameras"
    /\ scene = <<ExampleCamera>>
    /\ damage.op = "lower"
    /\ WrittenLines[1][2] = TokLower
    /\ textOut = InvalidData("Invalid camera model")

\* C13: in binary mode, an input that ends before the leading count or
\* before the last declared record is complete, at whatever byte, makes
\* read_cameras, read_images and read_points3d return the UnexpectedEof error.
C13_TruncatedIsEof ==
    (binOut.tag # "NoCall" /\ damage.op = "cut") => binOut = UnexpectedEof

\* the line is no '#' comment and has fewer than n tokens
ShortLine(line, n) ==
    /\ Len(line) < n
    /\ Len(line) > 0 => line[1][1] # HASH

\* C14: in text mode a camera line that is no '#' comment and has fewer than
\* 4 tokens makes read_cameras fail with "Invalid camera data" (every other
\* line of the file being a valid record).
C14_ShortCameraLine ==
    (kind = "cameras" /\ textOut.tag # "NoCall")
    => \A i \in 1..Len(WrittenLines) :
          ShortLine(WrittenLines[i], 4) => textOut = InvalidData("Invalid camera data")

\* the line "1 PINHOLE 800" is refused
C14_Witness ==
    /\ kind = "cameras"
    /\ scene = <<ExampleCamera>>
    /\ damage.op = "keep"
    /\ Len(WrittenLines[1]) = 3
    /\ textOut = InvalidData("Invalid camera data")

\* the call returned an error of the kind the spec calls MalformedRecord: an
\* InvalidData error that is none of the errors the spec names otherwise
MalformedRecord(out) ==
    /\ out.tag = "Err"
    /\ out.kind = "InvalidData"
    /\ out.msg \notin {"Parse error", "Invalid camera model",
                       "Invalid number of camera parameters", "invalid utf-8 sequence",
                       "stream did not contain valid UTF-8"}

\* the damage changes a line of the text file in place, and i is that line
DamagedInPlace(i) ==
    /\ damage.file = "text"
    /\ damage.op \notin {"comment", "blank"}
    /\ damage.line = i

\* C15: in text mode an image record whose line A has fewer than 10 tokens
\* makes read_images return a MalformedRecord error (every other line of the
\* file being as written for a valid record).
C15_ShortLineAIsError ==
    (kind = "images" /\ textOut.tag # "NoCall")
    => \A i \in 1..Len(WrittenLines) :
          (DamagedInPlace(i) /\ i % 2 = 1 /\ Len(WrittenLines[i]) < 10)
          => MalformedRecord(textOut)

\* C16: in text mode an image record whose line B has a number of tokens that
\* is no multiple of 3 makes read_images return a MalformedRecord error (every
\* other line of the file being as written for a valid record).
C16_RaggedLineBIsError ==
    (kind = "images" /\ textOut.tag # "NoCall")
    => \A i \in 1..Len(WrittenLines) :
          (DamagedInPlace(i) /\ i % 2 = 0 /\ Len(WrittenLines[i]) % 3 # 0)
          => MalformedRecord(textOut)

\* the text file as written from the scene, without the line put into it
PlainText == FileText(TextLines(kind, scene))

\* C17: in the text image reader a blank line or a '#' line found where a
\* line A is expected (before a record, between two records, after the last)
\* is skipped: the mapping returned is that of the file without the line.
C17_BlankAndCommentSkipped ==
    (/\ kind = "images"
     /\ textOut.tag # "NoCall"
     /\ damage.op \in {"comment", "blank"}
     /\ damage.line % 2 = 1)
    => textOut = read_images(PlainText, FALSE)

\* C18: in the text camera reader and the text point reader a line that
\* begins with '#' is skipped: with a comment line before any record or after
\* the last, the result is that of the file without the comment.
C18_CommentSkipped ==
    /\ (kind = "cameras" /\ textOut.tag # "NoCall" /\ damage.op = "comment")
       => textOut = read_cameras(PlainText, FALSE)
    /\ (kind = "points3d" /\ textOut.tag # "NoCall" /\ damage.op = "comment")
       => textOut = read_points3d(PlainText, FALSE)

\* a comment between two camera records: both cameras are returned
C18_Witness ==
    /\ kind = "cameras"
    /\ Len(scene) = 2
    /\ damage.op = "comment"
    /\ damage.line = 2
    /\ WrittenLines[2] = <<<<HASH>>, <<99>>>>
    /\ textOut.tag = "Ok"
    /\ DOMAIN textOut.map = {1, 2}

\* C19: in text mode a point line that is no '#' comment and has fewer than
\* 8 tokens makes read_points3d fail with "Invalid point3D data" (every other
\* line of the file being a valid record).
C19_ShortPointLine ==
    (kind = "points3d" /\ textOut.tag # "NoCall")
    => \A i \in 1..Len(WrittenLines) :
          ShortLine(WrittenLines[i], 8) => textOut = InvalidData("Invalid point3D data")

\* a point line cut after its seventh token is refused
C19_Witness ==
    /\ kind = "points3d"
    /\ Len(scene) = 1
    /\ damage.op = "keep"
    /\ Len(WrittenLines[1]) = 7
    /\ textOut = InvalidData("Invalid point3D data")

\* the line has its 8 leading tokens and an odd number of tokens after them
OddTail(line) == Len(line) >= 8 /\ (Len(line) - 8) % 2 = 1

\* the 8 leading tokens of the line and the complete pairs of its tail parse
LeadAndPairsParse(line) ==
    /\ parse_indexed(line, 1, <<"i64", "f32", "f32", "f32", "u8", "u8", "u8", "f64">>).tag = "Ok"
    /\ \A j \in 9..(Len(line) - 1) : parse_i32(line[j]).ok

\* C20, as stated: in text mode a point line whose tail after the first 8
\* tokens has an odd number of tokens makes read_points3d fail with
\* "Invalid point3D track data", and no point is returned.
C20_OddTailAlwaysTrackError ==
    (kind = "points3d" /\ textOut.tag # "NoCall")
    => \A i \in 1..Len(WrittenLines) :
          OddTail(WrittenLines[i]) => textOut = InvalidData("Invalid point3D track data")

\* C20, amended: a point line with an odd tail whose 8 leading tokens and
\* complete pairs parse makes read_points3d fail with "Invalid point3D track
\* data", whatever the lone last token is, and no point is returned.
C20_OddTailOfParsedTokens ==
    (kind = "points3d" /\ textOut.tag # "NoCall")
    => \A i \in 1..Len(WrittenLines) :
          (OddTail(WrittenLines[i]) /\ LeadAndPairsParse(WrittenLines[i]))
          => textOut = InvalidData("Invalid point3D track data")

\* a point line with one pair and one more token, as "1 0 0 0 255 255 255 0.1 5 10 3"
C20_Witness ==
    /\ kind = "points3d"
    /\ Len(scene) = 1
    /\ damage.op = "append"
    /\ Len(WrittenLines[1]) = 11
    /\ LeadAndPairsParse(WrittenLines[1])
    /\ textOut = InvalidData("Invalid point3D track data")

\* C21: in binary mode an image record whose name bytes, those before the
\* NUL, are no valid UTF-8 makes read_images fail with the error of from_utf8
\* (InvalidData, "invalid utf-8 sequence"), and no mapping is returned.
C21_BadNameIsInvalidEncoding ==
    (kind = "images" /\ damage.op = "name" /\ binOut.tag # "NoCall")
    => /\ ~is_utf8(SubSeq(read_until_nul(binFile, damage.at), 1,
                          Len(read_until_nul(binFile, damage.at)) - 1))
       /\ binOut = InvalidData("invalid utf-8 sequence")

\* the second of two records has the name 0xFF: the first record is not returned
C21_Witness ==
    /\ kind = "images"
    /\ Len(scene) = 2
    /\ damage.op = "name"
    /\ damage.line = 2
    /\ read_until_nul(binFile, damage.at) = <<255, NUL>>
    /\ binOut = InvalidData("invalid utf-8 sequence")

\* the text reader of a kind, run on a file
ReadText(k, file) ==
    CASE k = "cameras" -> read_cameras(file, FALSE)
      [] k = "images" -> read_images(file, FALSE)
      [] k = "points3d" -> read_points3d(file, FALSE)

\* the damage that replaces the first token of the line instead of the third,
\* or the third instead of the first
OtherPlace(d) == [d EXCEPT !.at = IF d.at = 1 THEN 3 ELSE 1]

\* C22: in text mode of the three readers a token that does not convert to
\* its numeric type makes the call fail with "Parse error", and the error
\* carries the position of the token: the errors for the token "x" in the
\* first place of a line and in the third place of that line differ.
C22_ParseErrorCarriesPosition ==
    (/\ kind \in Kinds
     /\ textOut.tag # "NoCall"
     /\ damage.op = "replace"
     /\ damage.at \in {1, 3}
     /\ Len(TextLines(kind, scene)[damage.line]) >= 3)
    => /\ textOut = ParseError
       /\ ReadText(kind, FileText(DamagedLines(OtherPlace(damage), TextLines(kind, scene))))
          # textOut

\* C23: in text and in binary mode the four rotation values of an image are
\* read in file order w, x, y, z and the quaternion of the Image has w equal
\* to the first, x to the second, y to the third and z to the fourth (as
\* singles); the translation keeps the file order x, y, z.
C23_QuatFileOrder ==
    (kind = "images" /\ ValidFiles)
    => \A out \in {textOut, binOut} :
          out.tag # "NoCall"
          => /\ out.tag = "Ok"
             /\ \A i \in 1..Len(scene) :
                   LastWithId(i)
                   => /\ out.map[scene[i].id].quat =
                            [w |-> as_f32(scene[i].q[1]), x |-> as_f32(scene[i].q[2]),
                             y |-> as_f32(scene[i].q[3]), z |-> as_f32(scene[i].q[4])]
                      /\ out.map[scene[i].id].tvec =
                            <<as_f32(scene[i].t[1]), as_f32(scene[i].t[2]),
                              as_f32(scene[i].t[3])>>

\* an image written with the rotation 1.0 0.25 -0.5 0.75, read from both files
C23_Witness ==
    /\ kind = "images"
    /\ damage = Intact
    /\ Len(scene) = 1
    /\ scene[1].q = <<4, 1, -2, 3>>
    /\ textOut.tag = "Ok"
    /\ binOut.tag = "Ok"
    /\ textOut.map[1].quat.w = as_f32(4)
    /\ binOut.map[1].quat.y = as_f32(-2)

\* the binary reader of a kind, run on a file
ReadBinary(k, file) ==
    CASE k = "cameras" -> read_cameras(file, TRUE)
      [] k = "images" -> read_images(file, TRUE)
      [] k = "points3d" -> read_points3d(file, TRUE)

\* the records of the scene in the order p
Permuted(p) == [i \in 1..Len(scene) |-> scene[p[i]]]

\* the calls made return what the same calls return on the files written from
\* the records in any other order
SameInAnyOrder ==
    \A p \in Permutations(1..Len(scene)) :
       /\ textOut.tag # "NoCall"
          => textOut = ReadText(kind, FileText(TextLines(kind, Permuted(p))))
       /\ binOut.tag # "NoCall"
          => binOut = ReadBinary(kind, BinaryFile(kind, Permuted(p)))

\* no two records of the scene have the same id
DistinctIds == Cardinality(Ids) = Len(scene)

\* C24, as stated: for the three readers and both modes, any permutation of
\* the records of a valid input yields the same returned mapping.
C24_OrderIrrelevant == (kind \in Kinds /\ damage = Intact) => SameInAnyOrder

\* C24, amended: for the three readers and both modes, any permutation of the
\* records of a valid input whose ids are pairwise distinct yields the same
\* returned mapping.
C24_OrderIrrelevantDistinctIds ==
    (kind \in Kinds /\ damage = Intact /\ DistinctIds) => SameInAnyOrder

\* two points with the ids 1 and 2, read from both files
C24_Witness ==
    /\ kind = "points3d"
    /\ damage = Intact
    /\ Len(scene) = 2
    /\ DistinctIds
    /\ textOut.tag = "Ok"
    /\ binOut.tag = "Ok"
    /\ DOMAIN textOut.map = {1, 2}
    /\ DOMAIN binOut.map = {1, 2}

\* the place of the first name byte of record r in the binary file of images:
\* after the count, the earlier records, and 64 bytes of id, pose and camera_id
NameStart(r) == Len(BinaryFile(kind, SubSeq(scene, 1, r - 1))) + 65

\* C26: in binary mode the name of a parsed image is the bytes between
\* camera_id and the first NUL after it, all of them and without the NUL, and
\* the number of observations is the u64 that follows that NUL.
C26_NameUpToNul ==
    (kind = "images" /\ ValidFiles /\ binOut.tag # "NoCall")
    => /\ binOut.tag = "Ok"
       /\ \A r \in 1..Len(scene) :
             LastWithId(r)
             => /\ \A j \in 1..Len(binOut.map[scene[r].id].name) :
                      /\ binOut.map[scene[r].id].name[j] = binFile[NameStart(r) + j - 1]
                      /\ binOut.map[scene[r].id].name[j] # NUL
                /\ binFile[NameStart(r) + Len(binOut.map[scene[r].id].name)] = NUL
                /\ Len(binOut.map[scene[r].id].xys) =
                      LEU(binFile, NameStart(r) + Len(binOut.map[scene[r].id].name) + 1, 8)

\* the name "a b" of an image with two observations
C26_Witness ==
    /\ kind = "images"
    /\ damage = Intact
    /\ Len(scene) = 1
    /\ binOut.tag = "Ok"
    /\ binOut.map[1].name = <<97, SPACE, 98>>
    /\ Len(binOut.map[1].xys) = 2
    /\ LEU(binFile, 77, 8) = 2

\* the entry of record r of the scene in the mapping out: that of the file
\* of this record alone, and (cameras) its id field is its key
EntryOfRecord(out, r, binary) ==
    /\ out.map[scene[r].id] =
          IF binary THEN ReadBinary(kind, BinaryFile(kind, <<scene[r]>>)).map[scene[r].id]
          ELSE ReadText(kind, FileText(TextLines(kind, <<scene[r]>>))).map[scene[r].id]
    /\ kind = "cameras" => out.map[scene[r].id].id = scene[r].id

\* the mapping out of a valid file: Ok, one entry per id, each that of the
\* last record with the id
LastRecordPerId(out, binary) ==
    /\ out.tag = "Ok"
    /\ DOMAIN out.map = Ids
    /\ Cardinality(DOMAIN out.map) <= Len(scene)
    /\ \A r \in 1..Len(scene) : LastWithId(r) => EntryOfRecord(out, r, binary)

\* C28: when several records of an input have the same id the read succeeds
\* and the mapping holds for the id the record that comes last; the mapping
\* has at most as many entries as records (in binary mode at most the count
\* declared, and as many exactly when the ids are distinct), and each Camera
\* has the id of its key.
C28_LastRecordWins ==
    (kind \in Kinds /\ ValidFiles)
    => /\ textOut.tag # "NoCall" => LastRecordPerId(textOut, FALSE)
       /\ binOut.tag # "NoCall"
          => /\ LastRecordPerId(binOut, TRUE)
             /\ Cardinality(DOMAIN binOut.map) <= LEU(binFile, 1, 8)
             /\ Cardinality(DOMAIN binOut.map) = LEU(binFile, 1, 8) <=> DistinctIds

\* two cameras with the id 1: the mapping has the second, from both files
C28_Witness ==
    /\ kind = "cameras"
    /\ damage = Intact
    /\ Len(scene) = 2
    /\ Ids = {1}
    /\ LEU(binFile, 1, 8) = 2
    /\ textOut.tag = "Ok"
    /\ binOut.tag = "Ok"
    /\ DOMAIN binOut.map = {1}
    /\ textOut.map[1].model = "SimplePinhole"
    /\ binOut.map[1].width = 32

\* the scene with no observation in its last record
LastUnobserved == [scene EXCEPT ![Len(scene)].obs = <<>>]

\* C29: the text image reader takes the line after a line A for line B,
\* whatever it is.  When the input ends after a valid line A the read succeeds
\* and the image has no observations and no point references (the mapping is
\* that of the file with an empty line B); an empty line B gives the same; a
\* '#' line in the place of line B is not skipped: it is parsed as
\* observations, and the call fails with "Parse error".
C29_LineBUnconditional ==
    (kind = "images" /\ textOut.tag # "NoCall")
    => /\ damage.op = "unline"
          => /\ textOut.tag = "Ok"
             /\ scene[Len(scene)].id \in DOMAIN textOut.map
             /\ textOut.map[scene[Len(scene)].id].xys = <<>>
             /\ textOut.map[scene[Len(scene)].id].point3d_ids = <<>>
             /\ textOut = ReadText(kind, FileText(TextLines(kind, LastUnobserved)))
       /\ damage = Intact
          => \A r \in 1..Len(scene) :
                (LastWithId(r) /\ WrittenLines[2 * r] = <<>>)
                => /\ textOut.tag = "Ok"
                   /\ textOut.map[scene[r].id].xys = <<>>
                   /\ textOut.map[scene[r].id].point3d_ids = <<>>
       /\ (damage.op = "comment" /\ damage.line % 2 = 0)
          => /\ textOut = ParseError
             /\ textOut # ReadText(kind, PlainText)

\* the file of an image with two observations ends after its line A
C29_Witness ==
    /\ kind = "images"
    /\ Len(scene) = 1
    /\ Len(scene[1].obs) = 2
    /\ damage.op = "unline"
    /\ Len(split_whitespace(textFile)) = 10
    /\ textFile[Len(textFile)] = LF
    /\ textOut.tag = "Ok"
    /\ textOut.map[1].xys = <<>>

\* C30: in the ScenePanel, after any sequence of messages (NewSource,
\* ViewSplats with any frame and total_frames, TrainStep, Error) and draws with
\* any clicks on the pause and live-update labels, a draw that selects a splat
\* (view_splats not empty, no error) computes a frame index smaller than
\* view_splats.len(): the indexing never panics.
C30_FrameIndexInBounds ==
    kind = "panel"
    => /\ panel.drawn.what # "panic"
       /\ panel.drawn.what = "splats"
          => /\ panel.drawn.len > 0
             /\ panel.drawn.index < panel.drawn.len

\* with live update off, a message has announced more frames than are held,
\* and a draw after some play time shows the last splat held
C30_Witness ==
    /\ kind = "panel"
    /\ ~panel.live_update
    /\ Len(panel.view_splats) = 2
    /\ panel.frame_count = 1
    /\ panel.frame > 0
    /\ panel.drawn.what = "splats"
    /\ panel.drawn.len = 2
    /\ panel.drawn.index = 0

\* what call i returns when no other call runs: the reader on its own input
Alone(i) ==
    IF calls[i].binary THEN ReadBinary(calls[i].kind, calls[i].reader)
    ELSE ReadText(calls[i].kind, calls[i].reader)

\* C25: reader calls that run at the same time on sources of their own do not
\* interfere: under every interleaving of their steps each call reads within
\* its own stream only, and returns what it returns when run alone.
C25_CallsDoNotInterfere ==
    kind = "calls"
    => \A i \in Callers :
          /\ calls[i].pos <= Len(calls[i].reader) + 1
          /\ calls[i].pc = "returned" => calls[i].out = Alone(i)

\* a text call and a binary call on different artifacts have both returned
\* their mappings of two entries
C25_Witness ==
    /\ kind = "calls"
    /\ calls[1].kind = "cameras"
    /\ ~calls[1].binary
    /\ calls[2].kind = "points3d"
    /\ calls[2].binary
    /\ \A i \in Callers :
          /\ calls[i].pc = "returned"
          /\ calls[i].out.tag = "Ok"
          /\ Cardinality(DOMAIN calls[i].out.map) = 2

\* C27: each reader is a single pass that ends on every finite input, for any
\* count declared (also one larger than the data there is), and the call then
\* returns a mapping or an error: a call does not leave its loop in any other
\* way.
C27_EndsWithMappingOrError ==
    kind = "calls"
    => \A i \in Callers :
          calls[i].pc = "returned" => calls[i].out.tag \in {"Ok", "Err"}

=============================================================================
